---------------------------- MODULE Spec2Model ----------------------------
(***************************************************************************)
(* Multiview core of hololive-app: the zustand store (layout, content,     *)
(* player states), the LRU player pool hook and the layout reconciler.     *)
(*                                                                         *)
(* Specifications:                                                         *)
(*   SpecPool  the usePlayerPool hook alone, driven through its API        *)
(*   Spec      the store together with the pool, as MultiviewPage wires    *)
(*             them (GridCell offers activation only on video cells)       *)
(*   SpecRec   the pure function reconcileLayout on enumerated inputs      *)
(*   SpecStore the store's API called with any id, and loadState           *)
(*   SpecAlloc addCell and removeCell alone, cells of several sizes        *)
(*   SpecIds   the operations that create and remove cells, with the ids   *)
(*             that were ever in use recorded                              *)
(*   SpecPresets  every built-in preset applied at several grid sizes      *)
(*   SpecRemove  removeContent on every id, with the store as it was       *)
(*             before recorded                                             *)
(*   SpecLayout  applyPresetLayout, addCell and the layout-change handler  *)
(*   SpecMute  setPlayerState, muteOthers and toggleMuteOthersMode with    *)
(*             the actions that create and remove cells                    *)
(*   SpecAuth  useSessionAuthStore: login, logout, the two single-flight   *)
(*             calls and the session-expired event                         *)
(*   SpecPage  MultiviewPage: the persistence calls, the cells and the     *)
(*             pool, which lives in the provider the page renders          *)
(*   SpecIo    the four persistence calls, each one await long, with       *)
(*             addCell and removeCell in between                           *)
(*   SpecGrid  MultiviewGrid: the layout-change handler, the render-time   *)
(*             clamp and the drag overlay; SpecGridLive adds that an armed *)
(*             timer fires                                                 *)
(***************************************************************************)
EXTENDS Integers, Sequences, FiniteSets, TLC

(***************************************************************************)
(* Bounds of the model                                                     *)
(***************************************************************************)
\* usePlayerPool(maxPlayers): the hook's parameter; the application passes
\* PLAYER_POOL_CONFIG.MAX_ACTIVE_PLAYERS (6).  The model runs the hook with
\* a smaller budget so that eviction happens within few cells.
maxPlayers == 2


\* Date.now() ranges over 0..MaxTime
MaxTime == 1

\* calls of restoreSession, and of refreshSession, waiting at one time
MaxCallers == 2

\* logical clock of the pool history (activations recorded)
MaxClock == 4

\* reconcileLayout inputs: layouts and content maps of at most MaxLayoutLen
\* entries over NumRecIds ids
MaxLayoutLen == 3
NumRecIds == 4

\* addCell is also called with options.maxCount = SmallMaxCount
SmallMaxCount == 2

\* crypto.randomUUID() is asked for at most MaxCells ids in one run
MaxCells == 7

\* SpecAlloc removes at most MaxRemovals cells
MaxRemovals == 1

\* SpecGrid shows at most MaxGridCells cells
MaxGridCells == 1

\* SpecIo adds at most MaxIoCells cells with addCell
MaxIoCells == 1

\* SpecLayout adds at most MaxLayCells cells with addCell
MaxLayCells == 1

\* SpecMute adds at most MaxMuteCells cells with addCell
MaxMuteCells == 2

\* SpecPresets builds the presets for grids of up to MaxResolution columns
\* and rows
MaxResolution == 25

(***************************************************************************)
(* Program constants                                                       *)
(***************************************************************************)
COLS == 24
ROWS == 24
MIN_W == 2
MIN_H == 2
DEFAULT_W == 4
DEFAULT_H == 2

\* y: Infinity of an appended item, a number beyond every grid row
Infinity == 1000000

(***************************************************************************)
(* Cell ids.  generateCellId yields 8 hex digits, applyPresetLayout        *)
(* `${timestamp}_${index}`: two disjoint name spaces.                      *)
(***************************************************************************)
\* the cells Spec creates with addCell: one more than the pool admits
NumUuids == maxPlayers + 1
UuidIds == {<<"uuid", n, 0>> : n \in 1..MaxCells}

\* the ids SpecPool passes to the hook: one more than the budget
PoolIds == {<<"uuid", n, 0>> : n \in 1..(maxPlayers + 1)}

\* the ids of the layouts and content maps reconcileLayout is run on
RecIds == {<<"uuid", n, 0>> : n \in 1..NumRecIds}

VARIABLES
    \* useMultiviewStore
    layout, content, playerStates, muteOthersEnabled, activePresetId,
    isLoading, error,
    \* usePlayerPool
    activePlayerIds,
    \* environment: Date.now() and the uuids handed out so far
    now, issued,
    \* history of the pool: the last pool call, a logical clock and the
    \* clock value of each id's latest activation
    last, clock, activatedAt,
    \* reconcileLayout under test: inputs, first and second result
    recLayout, recContent, recCols, recOnce, recTwice, recPc,
    \* loadState in flight: "idle" or "pending" (the invoke has not settled)
    loadPc,
    \* saveState and saveAsPreset in flight, likewise; applyPreset in flight:
    \* "idle" or the presetId of the call
    savePc, presetPc, savePresetPc,
    \* MultiviewGrid: the overlay flag, its safety timer, and the gesture the
    \* grid library has in progress ("none", "drag" or "resize")
    isDragging, dragTimeoutRef, gesture,
    \* useSessionAuthStore: the state object of the store, the two
    \* module-level promises of the single-flight calls, and the calls in
    \* flight
    authState, restorePromise, refreshPromise, authPc

storeVars == <<layout, content, playerStates, muteOthersEnabled,
               activePresetId, isLoading, error>>
envVars   == <<now, issued>>
histVars  == <<last, clock, activatedAt>>
recVars   == <<recLayout, recContent, recCols, recOnce, recTwice, recPc>>
ioVars    == <<loadPc, savePc, presetPc, savePresetPc>>
gridVars  == <<isDragging, dragTimeoutRef, gesture>>
authVars  == <<authState, restorePromise, refreshPromise, authPc>>
vars      == <<storeVars, activePlayerIds, envVars, histVars, recVars, ioVars,
               gridVars, authVars>>

(***************************************************************************)
(* Array helpers                                                           *)
(***************************************************************************)
\* Array.prototype.includes
Includes(arr, x) == \E k \in 1..Len(arr) : arr[k] = x

\* Array.prototype.filter(id => id !== x)
RECURSIVE Without(_, _)
Without(arr, x) ==
    IF arr = <<>> THEN <<>>
    ELSE IF Head(arr) = x THEN Without(Tail(arr), x)
         ELSE <<Head(arr)>> \o Without(Tail(arr), x)

\* Array.prototype.slice(0, n)
Slice0(arr, n) == SubSeq(arr, 1, IF n < Len(arr) THEN n ELSE Len(arr))

SeqToSet(arr) == {arr[k] : k \in 1..Len(arr)}

(***************************************************************************)
(* usePlayerPool                                                           *)
(***************************************************************************)
\* a plausible slip: the new id is added without trimming the tail
activatePlayerNoTrim(prev, cellId) ==
    IF Includes(prev, cellId)
    THEN <<cellId>> \o Without(prev, cellId)
    ELSE <<cellId>> \o prev

\* a plausible slip: a resident id is pushed again without removing it
activatePlayerNoDedup(prev, cellId) ==
    Slice0(<<cellId>> \o prev, maxPlayers)

\* a plausible slip: over budget, the newest resident id is dropped instead
\* of the oldest
activatePlayerDropNewest(prev, cellId) ==
    IF Includes(prev, cellId)
    THEN <<cellId>> \o Without(prev, cellId)
    ELSE LET next == <<cellId>> \o prev
         IN  IF Len(next) > maxPlayers
             THEN <<cellId>> \o SubSeq(prev, 2, Len(prev))
             ELSE next

\* a plausible slip: a resident id keeps its place when activated again
activatePlayerNoMove(prev, cellId) ==
    IF Includes(prev, cellId)
    THEN prev
    ELSE Slice0(<<cellId>> \o prev, maxPlayers)

\* the updater passed to setActivePlayerIds by activatePlayer
activatePlayer(prev, cellId) ==
    IF Includes(prev, cellId)
    THEN <<cellId>> \o Without(prev, cellId)
    ELSE LET next == <<cellId>> \o prev
         IN  IF Len(next) > maxPlayers
             THEN Slice0(next, maxPlayers)
             ELSE next

\* a plausible slip: the last id is popped instead of the named one
deactivatePlayerPop(prev, cellId) ==
    IF Includes(prev, cellId) THEN SubSeq(prev, 1, Len(prev) - 1) ELSE prev

\* the updater passed to setActivePlayerIds by deactivatePlayer
deactivatePlayer(prev, cellId) == Without(prev, cellId)

isPlayerActive(cellId) == Includes(activePlayerIds, cellId)

isFull == Len(activePlayerIds) >= maxPlayers

\* undefined is modelled as the empty tuple
Undefined == <<>>
getPlayerToEvict(activeIds) ==
    IF Len(activeIds) = 0 THEN Undefined ELSE activeIds[Len(activeIds)]

(***************************************************************************)
(* Store data                                                              *)
(***************************************************************************)
null == "null"

\* a JS object: a function whose domain is the set of fields present
Has(obj, f) == f \in DOMAIN obj

\* { ...base, ...upd }
Spread(base, upd) ==
    [f \in DOMAIN base \cup DOMAIN upd |->
        IF f \in DOMAIN upd THEN upd[f] ELSE base[f]]

\* delete copy[key]
Delete(map, key) == [k \in DOMAIN map \ {key} |-> map[k]]

\* { ...map, [key]: value }
Put(map, key, value) ==
    [k \in DOMAIN map \cup {key} |-> IF k = key THEN value ELSE map[k]]

EmptyMap == [k \in {} |-> null]

LayoutIds(l) == {l[k].i : k \in 1..Len(l)}

\* layout.filter(item => item.i !== cellId)
RECURSIVE WithoutItem(_, _)
WithoutItem(l, cellId) ==
    IF l = <<>> THEN <<>>
    ELSE IF Head(l).i = cellId THEN WithoutItem(Tail(l), cellId)
         ELSE <<Head(l)>> \o WithoutItem(Tail(l), cellId)

createDefaultPlayerState(cellId) ==
    [cellId |-> cellId, muted |-> TRUE, volume |-> 50, playing |-> FALSE,
     playbackRate |-> 1]

\* the unit cells the items of a layout cover
Occupied(l) ==
    UNION {{<<l[k].x + dx, l[k].y + dy>> :
                dx \in 0..(l[k].w - 1), dy \in 0..(l[k].h - 1)} :
           k \in 1..Len(l)}

NoPosition == [none |-> TRUE]

\* a plausible slip: only the top-left unit cell of the rectangle is tested
CanPlaceCorner(occupied, x, y, width, height) ==
    <<x, y>> \notin occupied

\* the inner loops over dx, dy: no unit cell of the rectangle is occupied
CanPlace(occupied, x, y, width, height) ==
    \A dx \in 0..(width - 1), dy \in 0..(height - 1) :
        <<x + dx, y + dy>> \notin occupied

\* the inner scan loop over x for one row y: the free candidates of the row
FreeInRow(occupied, y, width, height) ==
    {x \in 0..(COLS - width) : CanPlace(occupied, x, y, width, height)}

\* a plausible slip: the row is scanned from the right
RECURSIVE ScanFromRightmost(_, _, _, _)
ScanFromRightmost(occupied, y, width, height) ==
    IF y > ROWS - height THEN NoPosition
    ELSE LET free == FreeInRow(occupied, y, width, height)
         IN  IF free = {} THEN ScanFromRightmost(occupied, y + 1, width, height)
             ELSE [x |-> CHOOSE x \in free : \A x2 \in free : x >= x2,
                   y |-> y]

\* the outer scan loop over y: the first row with a free candidate returns
\* its smallest x; null after the last row
RECURSIVE ScanFrom(_, _, _, _)
ScanFrom(occupied, y, width, height) ==
    IF y > ROWS - height THEN NoPosition
    ELSE LET free == FreeInRow(occupied, y, width, height)
         IN  IF free = {} THEN ScanFrom(occupied, y + 1, width, height)
             ELSE [x |-> CHOOSE x \in free : \A x2 \in free : x <= x2,
                   y |-> y]

\* a plausible slip: the origin is returned when the scan finds nothing
findEmptyPositionOrOrigin(l, width, height) ==
    LET pos == ScanFrom(Occupied(l), 0, width, height)
    IN  IF pos = NoPosition THEN [x |-> 0, y |-> 0] ELSE pos

findEmptyPosition(l, width, height) ==
    ScanFrom(Occupied(l), 0, width, height)

(***************************************************************************)
(* Built-in presets (data/presets.ts); ratios are written in thousandths   *)
(***************************************************************************)
\* Math.round(ratio * n) for ratio = permille / 1000
RoundRatio(permille, n) == (2 * permille * n + 1000) \div 2000

\* a plausible slip: Math.ceil in place of Math.round
CeilRatio(permille, n) == (permille * n + 999) \div 1000

createCellCeil(cols, rows, id, xRatio, yRatio, wRatio, hRatio) ==
    [i |-> id,
     x |-> CeilRatio(xRatio, cols), y |-> CeilRatio(yRatio, rows),
     w |-> CeilRatio(wRatio, cols), h |-> CeilRatio(hRatio, rows),
     isDraggable |-> TRUE, isResizable |-> TRUE]

\* createCell with the grid size of GRID_CONFIG as parameters
createCellAt(cols, rows, id, xRatio, yRatio, wRatio, hRatio) ==
    [i |-> id,
     x |-> RoundRatio(xRatio, cols), y |-> RoundRatio(yRatio, rows),
     w |-> RoundRatio(wRatio, cols), h |-> RoundRatio(hRatio, rows),
     isDraggable |-> TRUE, isResizable |-> TRUE]

createCell(id, xRatio, yRatio, wRatio, hRatio) ==
    createCellAt(COLS, ROWS, id, xRatio, yRatio, wRatio, hRatio)

\* the presets of the source, built for a grid of cols x rows
BUILTIN_PRESETS_AT(cols, rows) ==
    LET C(id, xRatio, yRatio, wRatio, hRatio) ==
            createCellAt(cols, rows, id, xRatio, yRatio, wRatio, hRatio)
    IN  {
      [id |-> "builtin_1",
       layout |-> <<
            C(<<"cell", 1, 0>>, 0, 0, 1000, 1000) >>],
      [id |-> "builtin_2",
       layout |-> <<
            C(<<"cell", 1, 0>>, 0, 0, 500, 1000),
            C(<<"cell", 2, 0>>, 500, 0, 500, 1000) >>],
      [id |-> "builtin_2v",
       layout |-> <<
            C(<<"cell", 1, 0>>, 0, 0, 1000, 500),
            C(<<"cell", 2, 0>>, 0, 500, 1000, 500) >>],
      [id |-> "builtin_2x2",
       layout |-> <<
            C(<<"cell", 1, 0>>, 0, 0, 500, 500),
            C(<<"cell", 2, 0>>, 500, 0, 500, 500),
            C(<<"cell", 3, 0>>, 0, 500, 500, 500),
            C(<<"cell", 4, 0>>, 500, 500, 500, 500) >>],
      [id |-> "builtin_3",
       layout |-> <<
            C(<<"cell", 1, 0>>, 0, 0, 600, 1000),
            C(<<"cell", 2, 0>>, 600, 0, 400, 500),
            C(<<"cell", 3, 0>>, 600, 500, 400, 500) >>],
      [id |-> "builtin_3x2",
       layout |-> <<
            C(<<"cell", 1, 0>>, 0, 0, 333, 500),
            C(<<"cell", 2, 0>>, 333, 0, 333, 500),
            C(<<"cell", 3, 0>>, 666, 0, 334, 500),
            C(<<"cell", 4, 0>>, 0, 500, 333, 500),
            C(<<"cell", 5, 0>>, 333, 500, 333, 500),
            C(<<"cell", 6, 0>>, 666, 500, 334, 500) >>],
      [id |-> "builtin_3x3",
       layout |-> <<
            C(<<"cell", 1, 0>>, 0, 0, 333, 333),
            C(<<"cell", 2, 0>>, 333, 0, 333, 333),
            C(<<"cell", 3, 0>>, 666, 0, 334, 333),
            C(<<"cell", 4, 0>>, 0, 333, 333, 333),
            C(<<"cell", 5, 0>>, 333, 333, 333, 333),
            C(<<"cell", 6, 0>>, 666, 333, 334, 333),
            C(<<"cell", 7, 0>>, 0, 666, 333, 334),
            C(<<"cell", 8, 0>>, 333, 666, 333, 334),
            C(<<"cell", 9, 0>>, 666, 666, 334, 334) >>],
      [id |-> "builtin_4x4",
       layout |->
          [k \in 1..16 |->
              LET i   == k - 1
                  row == i \div 4
                  col == i % 4
              IN  C(<<"cell", i + 1, 0>>, col * 250, row * 250, 250, 250)]],
      [id |-> "builtin_side_chat",
       layout |-> <<
            C(<<"cell", 1, 0>>, 0, 0, 750, 1000),
            C(<<"chat", 1, 0>>, 750, 0, 250, 1000) >>],
      [id |-> "builtin_2_1chat",
       layout |-> <<
            C(<<"cell", 1, 0>>, 0, 0, 500, 500),
            C(<<"cell", 2, 0>>, 0, 500, 500, 500),
            C(<<"chat", 1, 0>>, 500, 0, 500, 1000) >>],
      [id |-> "builtin_1_bottom_chat",
       layout |-> <<
            C(<<"cell", 1, 0>>, 0, 0, 1000, 650),
            C(<<"chat", 1, 0>>, 0, 650, 1000, 350) >>] }

\* the preset the store specifications apply: builtin_1 (one cell over the
\* whole grid)
BUILTIN_PRESETS ==
    {p \in BUILTIN_PRESETS_AT(COLS, ROWS) : p.id = "builtin_1"}

\* the longest preset layout of BUILTIN_PRESETS
MaxPresetLen ==
    CHOOSE n \in {Len(p.layout) : p \in BUILTIN_PRESETS} :
        \A p \in BUILTIN_PRESETS : Len(p.layout) <= n

\* `${timestamp}_${index}`
PresetCellId(timestamp, index) == <<"ts", timestamp, index>>

PresetCellIds ==
    {PresetCellId(t, k) : t \in 0..MaxTime, k \in 0..(MaxPresetLen - 1)}

CellIds == UuidIds \cup PresetCellIds

(***************************************************************************)
(* Inputs of the store actions                                             *)
(***************************************************************************)
NoSize == [none |-> TRUE]
Sizes == {NoSize}
MaxCounts == {0, SmallMaxCount}          \* 0: options.maxCount absent

VideoIds == {"v1"}
\* the update EmptyCell.handleVideoSelect sends
ContentUpdates ==
    {[type |-> "video", videoId |-> v, videoSource |-> "youtube"] :
        v \in VideoIds}

ErrMaxCount == "max-count"
ErrNoSpace  == "no-space"

\* a JS truthiness test of an optional string field
Truthy(obj, f) == Has(obj, f) /\ obj[f] # ""

(***************************************************************************)
(* useMultiviewStore actions                                               *)
(***************************************************************************)
\* crypto.randomUUID().slice(0, 8): a value not handed out before.  The
\* uuids are interchangeable, so they are handed out in order.
generateCellId ==
    {c \in UuidIds \ issued : \A d \in UuidIds \ issued : c[2] <= d[2]}

AddCell(size, maxCount) ==
    IF maxCount # 0 /\ Len(layout) >= maxCount
    THEN /\ error' = ErrMaxCount
         /\ UNCHANGED <<layout, content, playerStates, muteOthersEnabled,
                        activePresetId, isLoading, issued>>
    ELSE \E cellId \in generateCellId :
            LET w   == IF size = NoSize THEN DEFAULT_W ELSE size.w
                h   == IF size = NoSize THEN DEFAULT_H ELSE size.h
                pos == findEmptyPosition(layout, w, h)
            IN  IF pos = NoPosition
                THEN /\ error' = ErrNoSpace
                     /\ UNCHANGED <<layout, content, playerStates,
                                    muteOthersEnabled, activePresetId,
                                    isLoading, issued>>
                ELSE    /\ issued' = issued \cup {cellId}
                        /\ layout' = Append(layout,
                                [i |-> cellId, x |-> pos.x, y |-> pos.y,
                                 w |-> w, h |-> h,
                                 isDraggable |-> TRUE, isResizable |-> TRUE])
                        /\ content' = Put(content, cellId,
                                [id |-> cellId, type |-> "empty"])
                        /\ playerStates' = Put(playerStates, cellId,
                                createDefaultPlayerState(cellId))
                        /\ UNCHANGED <<muteOthersEnabled, activePresetId,
                                       isLoading, error>>

\* a plausible slip: removeCell takes the cell out of the layout only
RemoveCellLayoutOnly(cellId) ==
    /\ layout' = WithoutItem(layout, cellId)
    /\ UNCHANGED <<content, playerStates, muteOthersEnabled, activePresetId,
                   isLoading, error>>

RemoveCell(cellId) ==
    /\ layout' = WithoutItem(layout, cellId)
    /\ content' = Delete(content, cellId)
    /\ playerStates' = Delete(playerStates, cellId)
    /\ UNCHANGED <<muteOthersEnabled, activePresetId, isLoading, error>>

\* a plausible slip: the content goes, the layout item stays
RemoveContentKeepsLayout(cellId) ==
    /\ content' = Delete(content, cellId)
    /\ playerStates' = Delete(playerStates, cellId)
    /\ UNCHANGED <<layout, muteOthersEnabled, activePresetId, isLoading,
                   error>>

RemoveContent(cellId) ==
    /\ content' = Delete(content, cellId)
    /\ playerStates' = Delete(playerStates, cellId)
    /\ layout' = WithoutItem(layout, cellId)
    /\ UNCHANGED <<muteOthersEnabled, activePresetId, isLoading, error>>

UpdateCellContent(cellId, contentUpdate) ==
    LET existingContent ==
            IF cellId \in DOMAIN content THEN content[cellId]
            ELSE [id |-> cellId, type |-> "empty"]
        merged == Spread(existingContent, contentUpdate)
        updatedContent ==
            IF Truthy(contentUpdate, "videoId") /\ merged.type = "empty"
            THEN [merged EXCEPT !.type = "video"]
            ELSE merged
    IN  /\ content' = Put(content, cellId, updatedContent)
        /\ playerStates' =
              IF cellId \in DOMAIN playerStates THEN playerStates
              ELSE Put(playerStates, cellId, createDefaultPlayerState(cellId))
        /\ UNCHANGED <<layout, muteOthersEnabled, activePresetId, isLoading,
                       error>>

ApplyPresetLayout(preset) ==
    LET timestamp == now
        newLayout ==
            [k \in 1..Len(preset.layout) |->
                [preset.layout[k] EXCEPT !.i = PresetCellId(timestamp, k - 1)]]
        ids == LayoutIds(newLayout)
    IN  /\ layout' = newLayout
        /\ content' = [id \in ids |-> [id |-> id, type |-> "empty"]]
        /\ playerStates' = [id \in ids |-> createDefaultPlayerState(id)]
        /\ activePresetId' = preset.id
        /\ UNCHANGED <<muteOthersEnabled, isLoading, error>>

Reset ==
    /\ layout' = <<>>
    /\ content' = EmptyMap
    /\ playerStates' = EmptyMap
    /\ muteOthersEnabled' = TRUE
    /\ activePresetId' = Undefined
    /\ isLoading' = FALSE
    /\ error' = null

ClearError ==
    /\ error' = null
    /\ UNCHANGED <<layout, content, playerStates, muteOthersEnabled,
                   activePresetId, isLoading>>

\* Date.now() advances between two events, or does not
Tick ==
    /\ now < MaxTime
    /\ now' = now + 1

(***************************************************************************)
(* usePlayerPool actions and the cells that offer them                     *)
(***************************************************************************)
\* GridCell.renderContent: the cell shows a VideoCell
IsVideoCell(cellId) ==
    /\ cellId \in DOMAIN content
    /\ content[cellId].type = "video"
    /\ Truthy(content[cellId], "videoId")

\* a plausible slip: every video cell is handed isActive = true
RendersPlayerAlways(cellId) ==
    /\ cellId \in LayoutIds(layout)
    /\ IsVideoCell(cellId)

\* MultiviewGrid renders one GridCell per layout item; VideoCell mounts a
\* player when the pool holds the cell's id
RendersPlayer(cellId) ==
    /\ cellId \in LayoutIds(layout)
    /\ IsVideoCell(cellId)
    /\ isPlayerActive(cellId)

\* the thumbnail button of an inactive VideoCell
CanActivateFromCell(cellId) ==
    /\ cellId \in LayoutIds(layout)
    /\ IsVideoCell(cellId)
    /\ ~isPlayerActive(cellId)

ActivatePlayer(cellId) ==
    activePlayerIds' = activatePlayer(activePlayerIds, cellId)

DeactivatePlayer(cellId) ==
    activePlayerIds' = deactivatePlayer(activePlayerIds, cellId)

DeactivateAll ==
    activePlayerIds' = <<>>

(***************************************************************************)
(* Initial state (initialState of the store, useState([]) of the pool)     *)
(***************************************************************************)
InitStore ==
    /\ layout = <<>>
    /\ content = EmptyMap
    /\ playerStates = EmptyMap
    /\ muteOthersEnabled = TRUE
    /\ activePresetId = Undefined
    /\ isLoading = FALSE
    /\ error = null

InitEnv == now = 0 /\ issued = {}

InitHist ==
    /\ last = [op |-> "none", cellId |-> Undefined, prev |-> <<>>]
    /\ clock = 0
    /\ activatedAt = [id \in PoolIds |-> 0]

InitRecIdle ==
    /\ recLayout = <<>>
    /\ recContent = <<>>
    /\ recCols = 0
    /\ recOnce = <<>>
    /\ recTwice = <<>>
    /\ recPc = "idle"

InitIo ==
    /\ loadPc = "idle"
    /\ savePc = "idle"
    /\ presetPc = "idle"
    /\ savePresetPc = "idle"

\* JS null where an object is stored (objects are tuples here)
nullRef == <<"null">>

\* the initial state of useSessionAuthStore; errorCode is set and cleared
\* together with error and is folded into it
InitAuth ==
    /\ authState = [isAuthenticated |-> FALSE, isLoading |-> FALSE,
                    user |-> nullRef, session |-> nullRef, error |-> null]
    /\ restorePromise = null
    /\ refreshPromise = null
    /\ authPc = [login |-> "idle", logout |-> "idle",
                 restoreRequests |-> 0, restoreWaiters |-> 0,
                 refreshRequests |-> 0, refreshWaiters |-> 0,
                 restoreSettled |-> FALSE, refreshSettled |-> FALSE]

InitGrid ==
    /\ isDragging = FALSE
    /\ dragTimeoutRef = null
    /\ gesture = "none"

Init ==
    /\ InitStore
    /\ activePlayerIds = <<>>
    /\ InitEnv
    /\ InitHist
    /\ InitRecIdle
    /\ InitIo
    /\ InitAuth
    /\ InitGrid

(***************************************************************************)
(* Spec: the store and the pool together                                   *)
(***************************************************************************)
\* the ids of the cells the store holds (removing any other id changes
\* nothing)
KnownIds ==
    LayoutIds(layout) \cup DOMAIN content \cup DOMAIN playerStates

poolAndRest == <<activePlayerIds, now, histVars, recVars, authVars, ioVars, gridVars>>
storeAndRest == <<storeVars, envVars, histVars, recVars, authVars, ioVars, gridVars>>

Next ==
    \/ \E size \in Sizes, maxCount \in MaxCounts :
          /\ Cardinality(issued) < NumUuids
          /\ AddCell(size, maxCount)
          /\ UNCHANGED poolAndRest
    \/ \E cellId \in KnownIds :
          RemoveCell(cellId) /\ UNCHANGED <<issued, poolAndRest>>
    \/ \E cellId \in KnownIds :
          RemoveContent(cellId) /\ UNCHANGED <<issued, poolAndRest>>
    \/ \E cellId \in KnownIds, upd \in ContentUpdates :
          UpdateCellContent(cellId, upd) /\ UNCHANGED <<issued, poolAndRest>>
    \/ \E preset \in BUILTIN_PRESETS :
          ApplyPresetLayout(preset) /\ UNCHANGED <<issued, poolAndRest>>
    \/ Reset /\ UNCHANGED <<issued, poolAndRest>>
    \/ ClearError /\ UNCHANGED <<issued, poolAndRest>>
    \/ Tick /\ UNCHANGED <<storeVars, activePlayerIds, issued, histVars,
                            recVars, authVars, ioVars, gridVars>>
    \/ \E cellId \in CellIds :
          /\ CanActivateFromCell(cellId)
          /\ ActivatePlayer(cellId)
          /\ UNCHANGED storeAndRest
    \/ \E cellId \in CellIds :
          DeactivatePlayer(cellId) /\ UNCHANGED storeAndRest
    \/ DeactivateAll /\ UNCHANGED storeAndRest

Spec == Init /\ [][Next]_vars

(***************************************************************************)
(* SpecPool: the hook alone, every call of its API on every id, with the   *)
(* history of activations recorded                                         *)
(***************************************************************************)
PoolActivate(cellId) ==
    /\ clock < MaxClock
    /\ ActivatePlayer(cellId)
    /\ clock' = clock + 1
    /\ activatedAt' = [activatedAt EXCEPT ![cellId] = clock + 1]
    /\ last' = [op |-> "activate", cellId |-> cellId, prev |-> activePlayerIds]

PoolDeactivate(cellId) ==
    /\ DeactivatePlayer(cellId)
    /\ last' = [op |-> "deactivate", cellId |-> cellId,
                prev |-> activePlayerIds]
    /\ UNCHANGED <<clock, activatedAt>>

PoolDeactivateAll ==
    /\ DeactivateAll
    /\ last' = [op |-> "deactivateAll", cellId |-> Undefined,
                prev |-> activePlayerIds]
    /\ UNCHANGED <<clock, activatedAt>>

poolRest == <<storeVars, envVars, recVars, authVars, ioVars, gridVars>>

NextPool ==
    \/ \E cellId \in PoolIds : PoolActivate(cellId) /\ UNCHANGED poolRest
    \/ \E cellId \in PoolIds : PoolDeactivate(cellId) /\ UNCHANGED poolRest
    \/ PoolDeactivateAll /\ UNCHANGED poolRest

SpecPool == Init /\ [][NextPool]_vars

(***************************************************************************)
(* layoutReconciler.ts.  A content map is a JS object: its entries in key  *)
(* order, a sequence of [key, value] with distinct keys.                   *)
(***************************************************************************)
DefaultCols == 4

ObjectKeys(obj) == [k \in 1..Len(obj) |-> obj[k].key]

\* id in content
HasKey(obj, id) == \E k \in 1..Len(obj) : obj[k].key = id

\* a plausible slip: nothing is pruned
sanitizeGhostReferencesKeepAll(l, contentObj) == l

\* a plausible slip: the filter also loses the first item it keeps
sanitizeGhostReferencesDropFirst(l, contentObj) ==
    LET kept == SelectSeq(l, LAMBDA item : HasKey(contentObj, item.i))
    IN  IF kept = <<>> THEN kept ELSE Tail(kept)

sanitizeGhostReferences(l, contentObj) ==
    SelectSeq(l, LAMBDA item : HasKey(contentObj, item.i))

\* the item synthesized for the index-th missing content id
NewItem(id, index, cols) ==
    [i |-> id,
     x |-> (index % cols) * (cols \div 2),
     y |-> Infinity,
     w |-> cols \div 2,
     h |-> 2,
     isDraggable |-> TRUE, isResizable |-> TRUE]

\* a plausible slip: the missing ids are computed against the layout before
\* pruning, and every content id not in it is appended
missingContentIdsAll(prunedLayout, contentObj) ==
    ObjectKeys(contentObj)

\* Object.keys(activeContent).filter(id => !layoutIds.has(id))
missingContentIds(prunedLayout, contentObj) ==
    LET layoutIds == LayoutIds(prunedLayout)
    IN  SelectSeq(ObjectKeys(contentObj), LAMBDA id : id \notin layoutIds)

\* a plausible slip: the synthesized items are put in front
reconcileLayoutNewFirst(targetLayout, activeContent, cols) ==
    LET prunedLayout == sanitizeGhostReferences(targetLayout, activeContent)
        missing == missingContentIds(prunedLayout, activeContent)
        newItems == [k \in 1..Len(missing) |-> NewItem(missing[k], k - 1, cols)]
    IN  newItems \o prunedLayout

reconcileLayout(targetLayout, activeContent, cols) ==
    LET prunedLayout == sanitizeGhostReferences(targetLayout, activeContent)
        missing == missingContentIds(prunedLayout, activeContent)
        newItems == [k \in 1..Len(missing) |-> NewItem(missing[k], k - 1, cols)]
    IN  prunedLayout \o newItems

\* inputs: sequences without repetition (LayoutItem.i is the item's unique
\* id, the keys of an object are distinct)
InjectiveSeqs(S, n) ==
    UNION {{q \in [1..m -> S] : \A a, b \in 1..m : a # b => q[a] # q[b]} :
           m \in 0..n}

\* an in-bounds item for the k-th place of an input layout
InputItem(id, k) ==
    [i |-> id, x |-> DEFAULT_W * (k - 1), y |-> 0,
     w |-> DEFAULT_W, h |-> DEFAULT_H,
     isDraggable |-> TRUE, isResizable |-> TRUE]

InitRec ==
    /\ InitStore
    /\ activePlayerIds = <<>>
    /\ InitEnv
    /\ InitHist
    /\ \E ids \in InjectiveSeqs(RecIds, MaxLayoutLen) :
          recLayout = [k \in 1..Len(ids) |-> InputItem(ids[k], k)]
    /\ \E keys \in InjectiveSeqs(RecIds, MaxLayoutLen) :
          recContent = [k \in 1..Len(keys) |->
                          [key |-> keys[k],
                           value |-> [id |-> keys[k], type |-> "empty"]]]
    /\ recCols \in {DefaultCols, COLS}
    /\ recOnce = <<>>
    /\ recTwice = <<>>
    /\ recPc = "start"
    /\ InitIo
    /\ InitAuth
    /\ InitGrid

ReconcileOnce ==
    /\ recPc = "start"
    /\ recOnce' = reconcileLayout(recLayout, recContent, recCols)
    /\ recPc' = "once"
    /\ UNCHANGED <<recLayout, recContent, recCols, recTwice>>

ReconcileAgain ==
    /\ recPc = "once"
    /\ recTwice' = reconcileLayout(recOnce, recContent, recCols)
    /\ recPc' = "twice"
    /\ UNCHANGED <<recLayout, recContent, recCols, recOnce>>

recRest == <<storeVars, activePlayerIds, envVars, histVars, ioVars, gridVars,
            authVars>>

NextRec ==
    \/ ReconcileOnce /\ UNCHANGED recRest
    \/ ReconcileAgain /\ UNCHANGED recRest

SpecRec == InitRec /\ [][NextRec]_vars

(***************************************************************************)
(* Properties of the player pool and of the cells that mount a player      *)
(***************************************************************************)
PoolSet == SeqToSet(activePlayerIds)

\* the place of an id in a sequence without repetition
IndexOf(arr, x) == CHOOSE k \in 1..Len(arr) : arr[k] = x

\* any two ids of a keep in b the order they have in a
OrderKept(a, b) ==
    \A p, q \in SeqToSet(a) \cap SeqToSet(b) :
        IndexOf(a, p) < IndexOf(a, q) => IndexOf(b, p) < IndexOf(b, q)

\* the layout items whose cell mounts a real player
PlayerCells == {k \in 1..Len(layout) : RendersPlayer(layout[k].i)}

\* the layout items that show a video, mounted or as a thumbnail
VideoCells ==
    {k \in 1..Len(layout) :
        layout[k].i \in LayoutIds(layout) /\ IsVideoCell(layout[k].i)}

\* C1: in every state reached by addCell, removeCell, removeContent,
\* updateCellContent, applyPresetLayout, reset, activatePlayer,
\* deactivatePlayer and deactivateAll, at most maxPlayers cells mount a real
\* player, however many cells the layout holds.
C1_ActivePlayersBounded == Cardinality(PlayerCells) <= maxPlayers

\* C1 witness: the budget is used up while the layout holds more video
\* cells than the budget.
C1_Witness ==
    /\ Cardinality(PlayerCells) = maxPlayers
    /\ Cardinality(VideoCells) > maxPlayers

\* C2: after any sequence of activate, deactivate and deactivateAll calls
\* from the empty pool, the pool holds at most maxPlayers ids.
C2_PoolBound == Len(activePlayerIds) <= maxPlayers

\* C2 witness: a new id was activated on a full pool and the pool is full.
C2_Witness ==
    /\ last.op = "activate"
    /\ ~Includes(last.prev, last.cellId)
    /\ Len(last.prev) = maxPlayers
    /\ Len(activePlayerIds) = maxPlayers

\* C3: the pool never holds an id twice, and it is ordered most recently
\* activated first.
C3_NoDuplicatesMruFirst ==
    /\ \A a, b \in 1..Len(activePlayerIds) :
          a # b => activePlayerIds[a] # activePlayerIds[b]
    /\ \A a, b \in 1..Len(activePlayerIds) :
          a < b => activatedAt[activePlayerIds[a]] > activatedAt[activePlayerIds[b]]

\* C3 witness: a resident id that was not at the front has been activated
\* again in a full pool.
C3_Witness ==
    /\ last.op = "activate"
    /\ Includes(last.prev, last.cellId)
    /\ last.prev[1] # last.cellId
    /\ Len(activePlayerIds) = maxPlayers

\* C4: activate(id) with id absent from a full pool evicts exactly one id,
\* the least recently activated one, which is getPlayerToEvict of the pool
\* before the call, and keeps every other id; in every other case activate
\* evicts nothing.
C4_EvictsLeastRecentlyActivated ==
    last.op = "activate" =>
        IF ~Includes(last.prev, last.cellId) /\ Len(last.prev) >= maxPlayers
        THEN LET evicted == getPlayerToEvict(last.prev)
             IN  /\ SeqToSet(last.prev) \ PoolSet = {evicted}
                 /\ \A other \in SeqToSet(last.prev) \ {evicted} :
                       activatedAt[evicted] < activatedAt[other]
        ELSE SeqToSet(last.prev) \subseteq PoolSet

\* C4 witness: an eviction whose victim is not the id activated first: a
\* re-activation has made another id the least recently activated one.
C4_Witness ==
    /\ last.op = "activate"
    /\ ~Includes(last.prev, last.cellId)
    /\ Len(last.prev) >= maxPlayers
    /\ activatedAt[getPlayerToEvict(last.prev)] > 1

C7_PoolIdsHaveVideoContent ==
    \A id \in PoolSet :
        id \in DOMAIN content /\ content[id].type = "video"

(***************************************************************************)
(* Properties of reconcileLayout                                           *)
(***************************************************************************)
ContentIds == {recContent[k].key : k \in 1..Len(recContent)}

Occurrences(l, id) == Cardinality({k \in 1..Len(l) : l[k].i = id})

\* C8: the ids of reconcileLayout(L, C) are exactly the ids of C.
C8_ReconcileConsistent ==
    recPc \in {"once", "twice"} => LayoutIds(recOnce) = ContentIds

\* C8 witness: L held a ghost item and C an orphan content (scenario C).
C8_Witness ==
    /\ recPc = "once"
    /\ Len(recLayout) = 3 /\ Len(recContent) = 3
    /\ Cardinality(LayoutIds(recLayout) \ ContentIds) = 1
    /\ Cardinality(ContentIds \ LayoutIds(recLayout)) = 1

\* C9: reconciling twice gives what reconciling once gives, and a layout
\* that is already consistent with the content is returned unchanged.
C9_ReconcileIdempotent ==
    /\ recPc = "twice" => recTwice = recOnce
    /\ (recPc \in {"once", "twice"} /\ LayoutIds(recLayout) = ContentIds)
          => recOnce = recLayout

\* C9 witness: a second pass after a first pass that pruned and appended.
C9_Witness ==
    /\ recPc = "twice"
    /\ LayoutIds(recLayout) \ ContentIds # {}
    /\ ContentIds \ LayoutIds(recLayout) # {}
    /\ LayoutIds(recLayout) \cap ContentIds # {}

\* C10: after reconcileLayout(L, C) every id of C is the id of exactly one
\* layout item, also an id that L already held.
C10_EachContentIdOnce ==
    recPc \in {"once", "twice"} =>
        \A id \in ContentIds : Occurrences(recOnce, id) = 1

\* C10 witness: an id of C that L already held, next to an appended one.
C10_Witness ==
    /\ recPc = "once"
    /\ LayoutIds(recLayout) \cap ContentIds # {}
    /\ ContentIds \ LayoutIds(recLayout) # {}
    /\ \A id \in ContentIds : Occurrences(recOnce, id) = 1

\* Number.isInteger: Infinity is a number but not an integer
IsInteger(v) == v \in Int /\ v # Infinity

\* the grid invariants of one layout item
GridInvariants(item) ==
    /\ IsInteger(item.x) /\ IsInteger(item.y)
    /\ item.x >= 0 /\ item.y >= 0
    /\ item.w >= MIN_W /\ item.h >= MIN_H
    /\ item.x + item.w <= COLS
    /\ item.y + item.h <= ROWS

\* C11: after reconcileLayout over a layout whose items satisfy the grid
\* invariants, every item of the result satisfies them, the items
\* synthesized for orphan content ids included.
C11_ReconciledItemsInBounds ==
    (/\ recPc \in {"once", "twice"}
     /\ \A k \in 1..Len(recLayout) : GridInvariants(recLayout[k]))
        => \A k \in 1..Len(recOnce) : GridInvariants(recOnce[k])

(***************************************************************************)
(* SpecStore: the store's API called with any id, and loadState with any   *)
(* persisted state; the last completed call is recorded                    *)
(***************************************************************************)
\* the ids the API is called with and the persisted states are built from
ApiIds == {<<"uuid", n, 0>> : n \in 1..NumUuids}

ErrLoad == "load-failed"

\* what load_multiview_state can return: any layout of distinct in-bounds
\* items together with any content map
PersistedStates ==
    {[layout |-> [k \in 1..Len(ids) |-> InputItem(ids[k], k)],
      content |-> [id \in keys |-> [id |-> id, type |-> "empty"]],
      playerStates |-> [id \in keys |-> createDefaultPlayerState(id)],
      muteOthersEnabled |-> FALSE,
      activePresetId |-> Undefined] :
        ids \in InjectiveSeqs(ApiIds, MaxLayoutLen), keys \in SUBSET ApiIds}

\* a JS object given as a function: its entries as [key, value] pairs
AsObject(map) ==
    LET RECURSIVE Entries(_)
        Entries(keys) ==
            IF keys = {} THEN <<>>
            ELSE LET k == CHOOSE k \in keys : TRUE
                 IN  <<[key |-> k, value |-> map[k]]>> \o Entries(keys \ {k})
    IN  Entries(DOMAIN map)

\* loadState up to the await
LoadStateBegin ==
    /\ loadPc = "idle"
    /\ isLoading' = TRUE
    /\ error' = null
    /\ loadPc' = "pending"
    /\ UNCHANGED <<layout, content, playerStates, muteOthersEnabled,
                   activePresetId, last>>

\* the layout loadState stores
LoadedLayout(l, contentObj) == sanitizeGhostReferences(l, contentObj)

\* the invoke resolved with a state
LoadStateResolve(state) ==
    /\ loadPc = "pending"
    /\ layout' = LoadedLayout(state.layout, AsObject(state.content))
    /\ content' = state.content
    /\ playerStates' = state.playerStates
    /\ muteOthersEnabled' = state.muteOthersEnabled
    /\ activePresetId' = state.activePresetId
    /\ isLoading' = FALSE
    /\ loadPc' = "idle"
    /\ last' = [op |-> "loadState", cellId |-> Undefined, prev |-> state]
    /\ UNCHANGED error

\* the invoke resolved with null: nothing was persisted
LoadStateResolveNull ==
    /\ loadPc = "pending"
    /\ isLoading' = FALSE
    /\ loadPc' = "idle"
    /\ last' = [op |-> "loadStateNull", cellId |-> Undefined, prev |-> <<>>]
    /\ UNCHANGED <<layout, content, playerStates, muteOthersEnabled,
                   activePresetId, error>>

\* the invoke rejected
LoadStateReject ==
    /\ loadPc = "pending"
    /\ error' = ErrLoad
    /\ isLoading' = FALSE
    /\ loadPc' = "idle"
    /\ last' = [op |-> "loadStateFailed", cellId |-> Undefined, prev |-> <<>>]
    /\ UNCHANGED <<layout, content, playerStates, muteOthersEnabled,
                   activePresetId>>

StoreRemoveCell(cellId) ==
    /\ RemoveCell(cellId)
    /\ last' = [op |-> "removeCell", cellId |-> cellId, prev |-> layout]

StoreUpdateCellContent(cellId, contentUpdate) ==
    /\ UpdateCellContent(cellId, contentUpdate)
    /\ last' = [op |-> "updateCellContent", cellId |-> cellId, prev |-> layout]

StoreReset ==
    /\ Reset
    /\ last' = [op |-> "reset", cellId |-> Undefined, prev |-> layout]

storeRest ==
    <<activePlayerIds, envVars, clock, activatedAt, recVars, authVars, gridVars,
      savePc, presetPc, savePresetPc>>

NextStore ==
    \/ LoadStateBegin /\ UNCHANGED storeRest
    \/ \E state \in PersistedStates :
          LoadStateResolve(state) /\ UNCHANGED storeRest
    \/ LoadStateResolveNull /\ UNCHANGED storeRest
    \/ LoadStateReject /\ UNCHANGED storeRest
    \/ \E cellId \in ApiIds :
          StoreRemoveCell(cellId) /\ UNCHANGED <<loadPc, storeRest>>
    \/ \E cellId \in ApiIds, upd \in ContentUpdates :
          StoreUpdateCellContent(cellId, upd) /\ UNCHANGED <<loadPc, storeRest>>
    \/ StoreReset /\ UNCHANGED <<loadPc, storeRest>>

SpecStore == Init /\ [][NextStore]_vars

(***************************************************************************)
(* Properties of loadState and of the store's API                          *)
(***************************************************************************)
\* C12: after loadState has completed with a persisted state, the ids of the
\* store's layout are exactly the ids of its content, whatever the persisted
\* layout and content were.
C12_LoadedStateConsistent ==
    last.op = "loadState" => LayoutIds(layout) = DOMAIN content

\* C13: after updateCellContent(id, update), for any id, the layout has an
\* item with that id.
C13_ContentAssignmentHasLayoutItem ==
    last.op = "updateCellContent" => last.cellId \in LayoutIds(layout)

(***************************************************************************)
(* SpecAlloc: addCell with several sizes and removeCell, up to MaxCells    *)
(* cells; the last call and the store before it are recorded               *)
(***************************************************************************)
\* the sizes addCell is called with: the default size written out, and
\* half of the grid
AllocSizes == {[w |-> 4, h |-> 2], [w |-> COLS, h |-> ROWS \div 2]}

\* the cells removed so far: every uuid handed out was placed
Removed == Cardinality(issued) - Len(layout)

Snapshot ==
    [layout |-> layout, content |-> content, playerStates |-> playerStates]

AllocAddCell(size, maxCount) ==
    /\ AddCell(size, maxCount)
    /\ last' = [op |-> "addCell", size |-> size, maxCount |-> maxCount,
                prev |-> Snapshot]

AllocRemoveCell(cellId) ==
    /\ RemoveCell(cellId)
    /\ last' = [op |-> "removeCell", cellId |-> cellId, prev |-> Snapshot]

allocRest ==
    <<activePlayerIds, now, clock, activatedAt, recVars, authVars, ioVars, gridVars>>

NextAlloc ==
    \/ \E size \in AllocSizes, maxCount \in MaxCounts :
          AllocAddCell(size, maxCount) /\ UNCHANGED allocRest
    \/ \E cellId \in LayoutIds(layout) :
          /\ Removed < MaxRemovals
          /\ AllocRemoveCell(cellId)
          /\ UNCHANGED <<issued, allocRest>>

SpecAlloc == Init /\ [][NextAlloc]_vars

(***************************************************************************)
(* Properties of findEmptyPosition and addCell                             *)
(***************************************************************************)
\* two rectangles share a unit cell
Overlaps(a, b) ==
    /\ a.x < b.x + b.w /\ b.x < a.x + a.w
    /\ a.y < b.y + b.h /\ b.y < a.y + a.h

NonOverlapping(l) ==
    \A a, b \in 1..Len(l) : a # b => ~Overlaps(l[a], l[b])

\* a w x h rectangle at (x, y) lies in the grid and overlaps no item of l
Fits(l, x, y, w, h) ==
    /\ x >= 0 /\ y >= 0 /\ x + w <= COLS /\ y + h <= ROWS
    /\ \A k \in 1..Len(l) : ~Overlaps(l[k], [x |-> x, y |-> y, w |-> w, h |-> h])

SomeFits(l, w, h) ==
    \E y \in 0..(ROWS - 1), x \in 0..(COLS - 1) : Fits(l, x, y, w, h)

\* the cells of l that have the size asked for
SizeClassCount(l, size) ==
    Cardinality({k \in 1..Len(l) : l[k].w = size.w /\ l[k].h = size.h})

\* C14: on a layout without overlaps, findEmptyPosition returns for every
\* size either a position whose rectangle lies in the grid and overlaps no
\* item, or null, and null only when no such position exists.
C14_PlacementSafe ==
    NonOverlapping(layout) =>
        \A size \in AllocSizes :
            LET pos == findEmptyPosition(layout, size.w, size.h)
            IN  IF pos = NoPosition
                THEN ~SomeFits(layout, size.w, size.h)
                ELSE Fits(layout, pos.x, pos.y, size.w, size.h)

\* C14 witness: after a removal left a hole, the layout has room for one
\* size and none for the other.
C14_Witness ==
    /\ Removed > 0
    /\ Len(layout) >= 2
    /\ findEmptyPosition(layout, 4, 2) # NoPosition
    /\ findEmptyPosition(layout, COLS, ROWS \div 2) = NoPosition

\* C15: addCell without a cap puts the new cell, with the size asked for,
\* at the first free position in row-major order of the layout before the
\* call, whenever there is one; cells of 4 x 2 added to an empty grid, none
\* removed, lie at (0,0), (4,0), ..., (20,0), (0,2), ...
C15_FirstFreeRowMajor ==
    /\ (/\ last.op = "addCell"
        /\ last.maxCount = 0
        /\ SomeFits(last.prev.layout, last.size.w, last.size.h)) =>
          /\ Len(layout) = Len(last.prev.layout) + 1
          /\ SubSeq(layout, 1, Len(layout) - 1) = last.prev.layout
          /\ LET item == layout[Len(layout)]
                 w == last.size.w
                 h == last.size.h
             IN  /\ item.w = w /\ item.h = h
                 /\ Fits(last.prev.layout, item.x, item.y, w, h)
                 /\ ~\E y \in 0..item.y, x \in 0..(COLS - 1) :
                        /\ y < item.y \/ x < item.x
                        /\ Fits(last.prev.layout, x, y, w, h)
    /\ (/\ Removed = 0
        /\ \A k \in 1..Len(layout) : layout[k].w = 4 /\ layout[k].h = 2) =>
          \A k \in 1..Len(layout) :
              /\ layout[k].x = ((k - 1) % (COLS \div 4)) * 4
              /\ layout[k].y = ((k - 1) \div (COLS \div 4)) * 2

\* C15 witness: the seventh 4 x 2 cell in a row has wrapped to (0, 2).
C15_Witness ==
    /\ last.op = "addCell"
    /\ last.maxCount = 0
    /\ Removed = 0
    /\ Len(layout) = COLS \div 4 + 1
    /\ \A k \in 1..Len(layout) : layout[k].w = 4 /\ layout[k].h = 2
    /\ layout[Len(layout)].x = 0 /\ layout[Len(layout)].y = 2

\* C16: addCell without a cap on a layout with no free rectangle of the
\* size asked for leaves layout, content and playerStates as they were and
\* sets the no-space error.
C16_NoSpaceAddsNothing ==
    (/\ last.op = "addCell"
     /\ last.maxCount = 0
     /\ ~SomeFits(last.prev.layout, last.size.w, last.size.h)) =>
        /\ Snapshot = last.prev
        /\ error = ErrNoSpace

\* C16 witness: a 4 x 2 cell was asked for on a grid two half-grid cells
\* fill.
C16_Witness ==
    /\ last.op = "addCell"
    /\ last.maxCount = 0
    /\ last.size.w = 4
    /\ Len(last.prev.layout) = 2
    /\ ~SomeFits(last.prev.layout, last.size.w, last.size.h)
    /\ error = ErrNoSpace

\* C17: addCell(size, {maxCount: N}) is rejected, with layout, content and
\* playerStates unchanged and the max-count error set, exactly when the
\* layout before the call holds N or more cells of that size.
C17_MaxCountPerSizeClass ==
    (last.op = "addCell" /\ last.maxCount # 0) =>
        LET rejected == Snapshot = last.prev /\ error = ErrMaxCount
        IN  rejected <=>
                SizeClassCount(last.prev.layout, last.size) >= last.maxCount

(***************************************************************************)
(* SpecGrid: MultiviewGrid.  The grid library reports layouts to           *)
(* handleLayoutChange and gestures to the start and stop handlers; the     *)
(* 5 s safety timer of the overlay fires at any time while it is armed.    *)
(***************************************************************************)
MathMin(a, b) == IF a <= b THEN a ELSE b
MathMax(a, b) == IF a >= b THEN a ELSE b

\* a plausible slip: the render-time clamp of x stops at the last column
RenderClampXLastColumn(x) == MathMin(MathMax(0, x), COLS - 1)

\* clampedX, clampedY of the layout prop
RenderClampX(x) == MathMin(MathMax(0, x), COLS - MIN_W)
RenderClampY(y) == MathMin(MathMax(0, y), ROWS - MIN_H)

\* the item handed to the grid library for a stored item
RenderItem(item) ==
    LET clampedX == RenderClampX(item.x)
        clampedY == RenderClampY(item.y)
        clampedW == MathMin(item.w, COLS - clampedX)
        clampedH == MathMin(item.h, ROWS - clampedY)
        dynamicMaxW == COLS - clampedX
        dynamicMaxH == ROWS - clampedY
    IN  [i |-> item.i,
         isDraggable |-> item.isDraggable, isResizable |-> item.isResizable,
         x |-> clampedX,
         y |-> clampedY,
         w |-> MathMax(MIN_W, clampedW),
         h |-> MathMax(MIN_H, clampedH),
         static |-> ~item.isDraggable /\ ~item.isResizable,
         minW |-> MIN_W, minH |-> MIN_H,
         maxW |-> dynamicMaxW, maxH |-> dynamicMaxH]

RenderLayout(l) == [k \in 1..Len(l) |-> RenderItem(l[k])]

\* the item handleLayoutChange stores for a reported item
ConvertItem(item) ==
    LET clampedX == MathMin(MathMax(0, item.x), COLS - 1)
        clampedY == MathMin(MathMax(0, item.y), ROWS - 1)
        clampedW == MathMin(MathMax(MIN_W, item.w), COLS - clampedX)
        clampedH == MathMin(MathMax(MIN_H, item.h), ROWS - clampedY)
    IN  [i |-> item.i, x |-> clampedX, y |-> clampedY,
         w |-> clampedW, h |-> clampedH,
         isDraggable |-> ~item.static, isResizable |-> ~item.static]

\* a plausible slip: setLayout also clears the error message
SetLayoutClearsError(l) ==
    /\ layout' = l
    /\ activePresetId' = Undefined
    /\ error' = null
    /\ UNCHANGED <<content, playerStates, muteOthersEnabled, isLoading>>

\* setLayout
SetLayout(l) ==
    /\ layout' = l
    /\ activePresetId' = Undefined
    /\ UNCHANGED <<content, playerStates, muteOthersEnabled, isLoading, error>>

\* what the grid library reports for the item of a gesture
ReportedXs == {0 - 1, COLS - MIN_W, COLS - 1, COLS + 1}
ReportedYs == {0 - 1, ROWS - 1}
ReportedWs == {MIN_W - 1, MIN_W, COLS + 1}
ReportedHs == {MIN_H, ROWS + 1}

\* a reported layout: the items as they were handed to the library, one of
\* them with the geometry the library reports for it
ReportedLayout(k, x, y, w, h) ==
    [j \in 1..Len(layout) |->
        IF j = k
        THEN [RenderItem(layout[j]) EXCEPT !.x = x, !.y = y, !.w = w, !.h = h]
        ELSE RenderItem(layout[j])]

HandleLayoutChange(newLayout) ==
    SetLayout([k \in 1..Len(newLayout) |-> ConvertItem(newLayout[k])])

\* a plausible slip: the effect never arms the timer
DragEffectNeverArms(before, after) ==
    dragTimeoutRef' = null

\* the effect on isDragging: the cleanup clears the timer, the effect arms
\* a new one when the overlay is shown
DragEffect(before, after) ==
    dragTimeoutRef' = IF before = after THEN dragTimeoutRef
                      ELSE IF after THEN "armed" ELSE null

SetIsDragging(value) ==
    /\ isDragging' = value
    /\ DragEffect(isDragging, value)

HandleDragStart ==
    /\ gesture = "none"
    /\ gesture' = "drag"
    /\ SetIsDragging(TRUE)

HandleDragStop ==
    /\ gesture = "drag"
    /\ gesture' = "none"
    /\ SetIsDragging(FALSE)

HandleResizeStart ==
    /\ gesture = "none"
    /\ gesture' = "resize"
    /\ SetIsDragging(TRUE)

HandleResizeStop ==
    /\ gesture = "resize"
    /\ gesture' = "none"
    /\ SetIsDragging(FALSE)

\* the setTimeout callback of the effect, 5000 ms after the overlay
\* appeared
DragTimeout ==
    /\ dragTimeoutRef = "armed"
    /\ SetIsDragging(FALSE)
    /\ UNCHANGED gesture

\* the grid is rendered when the layout is not empty
GridShown == layout # <<>>

gridStoreRest ==
    <<activePlayerIds, now, clock, activatedAt, recVars, authVars, ioVars>>
gridRest ==
    <<storeVars, activePlayerIds, envVars, histVars, recVars, authVars, ioVars>>

NextGrid ==
    \/ /\ Cardinality(issued) < MaxGridCells
       /\ AddCell(NoSize, 0)
       /\ UNCHANGED <<last, gridVars, gridStoreRest>>
    \/ \E k \in 1..Len(layout), x \in ReportedXs, y \in ReportedYs,
          w \in ReportedWs, h \in ReportedHs :
          /\ GridShown
          /\ HandleLayoutChange(ReportedLayout(k, x, y, w, h))
          /\ last' = [op |-> "layoutChange", cellId |-> layout[k].i,
                      prev |-> [x |-> x, y |-> y, w |-> w, h |-> h]]
          /\ UNCHANGED <<issued, gridVars, gridStoreRest>>
    \/ GridShown /\ HandleDragStart /\ UNCHANGED gridRest
    \/ HandleDragStop /\ UNCHANGED gridRest
    \/ GridShown /\ HandleResizeStart /\ UNCHANGED gridRest
    \/ HandleResizeStop /\ UNCHANGED gridRest
    \/ DragTimeout /\ UNCHANGED gridRest

SpecGrid == Init /\ [][NextGrid]_vars

\* a timer that is armed and not cleared fires: the event loop runs the
\* setTimeout callback
SpecGridLive == SpecGrid /\ WF_vars(DragTimeout /\ UNCHANGED gridRest)

(***************************************************************************)
(* Properties of MultiviewGrid                                             *)
(***************************************************************************)
\* C18: whatever integers the grid library reports, every item the
\* layout-change handler stores has 0 <= x <= COLS - MIN_W,
\* 0 <= y <= ROWS - MIN_H, w >= MIN_W, h >= MIN_H, x + w <= COLS and
\* y + h <= ROWS.
C18_CommittedItemsClamped ==
    last.op = "layoutChange" =>
        \A k \in 1..Len(layout) :
            /\ 0 <= layout[k].x /\ layout[k].x <= COLS - MIN_W
            /\ 0 <= layout[k].y /\ layout[k].y <= ROWS - MIN_H
            /\ layout[k].w >= MIN_W /\ layout[k].h >= MIN_H
            /\ layout[k].x + layout[k].w <= COLS
            /\ layout[k].y + layout[k].h <= ROWS

\* C19: the item handed to the grid library for any stored item has x and y
\* clamped into the grid, maxW = COLS - x and maxH = ROWS - y for these x
\* and y, MIN_W <= w <= maxW and MIN_H <= h <= maxH.
C19_RenderedItemWithinDynamicMax ==
    \A k \in 1..Len(layout) :
        LET r == RenderLayout(layout)[k]
        IN  /\ 0 <= r.x /\ r.x <= COLS - MIN_W
            /\ 0 <= r.y /\ r.y <= ROWS - MIN_H
            /\ (layout[k].x \in 0..(COLS - MIN_W)) => r.x = layout[k].x
            /\ (layout[k].y \in 0..(ROWS - MIN_H)) => r.y = layout[k].y
            /\ r.maxW = COLS - r.x /\ r.maxH = ROWS - r.y
            /\ MIN_W <= r.w /\ r.w <= r.maxW
            /\ MIN_H <= r.h /\ r.h <= r.maxH

\* C19 witness: a stored item in the last column, narrower than MIN_W, is
\* handed on moved left and widened.
C19_Witness ==
    \E k \in 1..Len(layout) :
        /\ layout[k].x = COLS - 1
        /\ layout[k].w < MIN_W
        /\ RenderLayout(layout)[k].x = COLS - MIN_W
        /\ RenderLayout(layout)[k].w = MIN_W

\* C20: from drag start or resize start until the matching stop, isDragging
\* is true.
C20_OverlayDuringGesture ==
    gesture # "none" => isDragging

\* C21: while isDragging is true the safety timer is pending; a drag-stop or
\* resize-stop lowers the overlay in the same step; and whenever the overlay
\* is raised it is lowered later, by the timer if no stop event comes.
C21_OverlayEventuallyLowered ==
    /\ [](isDragging => dragTimeoutRef = "armed")
    /\ [][(gesture # "none" /\ gesture' = "none") => ~isDragging']_vars
    /\ isDragging ~> ~isDragging

\* C21 witness: no stop event has come for the gesture in progress and the
\* timer has lowered the overlay.
C21_Witness ==
    /\ gesture # "none"
    /\ ~isDragging
    /\ dragTimeoutRef = null

(***************************************************************************)
(* SpecIo: saveState, loadState, applyPreset and saveAsPreset.  Each call  *)
(* runs up to its await, and settles later; calls overlap, and addCell and *)
(* removeCell run while calls are outstanding.                             *)
(***************************************************************************)
\* the message of a rejected save_multiview_state, apply_multiview_preset
\* or save_multiview_preset
ErrInvoke == "invoke-failed"

\* the presetId applyPreset is called with
PresetIds == {"custom_1"}

\* what the backend returns to loadState and applyPreset here: layouts of
\* at most one cell with the content of that cell
IoStates ==
    {s \in PersistedStates :
        Len(s.layout) <= 1 /\ LayoutIds(s.layout) = DOMAIN s.content}

\* a call up to its await: set({ isLoading: true, error: null })
BeginCall ==
    /\ isLoading' = TRUE
    /\ error' = null
    /\ UNCHANGED <<layout, content, playerStates, muteOthersEnabled,
                   activePresetId>>

\* a plausible slip: a failed call empties the grid
FailCallReset(errorMessage) ==
    /\ layout' = <<>>
    /\ content' = EmptyMap
    /\ playerStates' = EmptyMap
    /\ error' = errorMessage
    /\ isLoading' = FALSE
    /\ UNCHANGED <<muteOthersEnabled, activePresetId>>

\* the catch block: set({ error: errorMessage, isLoading: false })
FailCall(errorMessage) ==
    /\ error' = errorMessage
    /\ isLoading' = FALSE
    /\ UNCHANGED <<layout, content, playerStates, muteOthersEnabled,
                   activePresetId>>

\* the await returned: set({ isLoading: false })
EndCall ==
    /\ isLoading' = FALSE
    /\ UNCHANGED <<layout, content, playerStates, muteOthersEnabled,
                   activePresetId, error>>

IoLoadStateBegin ==
    /\ LoadStateBegin
    /\ UNCHANGED <<savePc, presetPc, savePresetPc>>

IoLoadStateResolve(state) ==
    /\ LoadStateResolve(state)
    /\ UNCHANGED <<savePc, presetPc, savePresetPc>>

IoLoadStateResolveNull ==
    /\ LoadStateResolveNull
    /\ UNCHANGED <<savePc, presetPc, savePresetPc>>

IoLoadStateReject ==
    /\ loadPc = "pending"
    /\ FailCall(ErrLoad)
    /\ loadPc' = "idle"
    /\ last' = [op |-> "loadStateFailed", cellId |-> Undefined, prev |-> <<>>]
    /\ UNCHANGED <<savePc, presetPc, savePresetPc>>

SaveStateBegin ==
    /\ savePc = "idle"
    /\ BeginCall
    /\ savePc' = "pending"
    /\ UNCHANGED <<last, loadPc, presetPc, savePresetPc>>

SaveStateResolve ==
    /\ savePc = "pending"
    /\ EndCall
    /\ savePc' = "idle"
    /\ last' = [op |-> "saveState", cellId |-> Undefined, prev |-> <<>>]
    /\ UNCHANGED <<loadPc, presetPc, savePresetPc>>

SaveStateReject ==
    /\ savePc = "pending"
    /\ FailCall(ErrInvoke)
    /\ savePc' = "idle"
    /\ last' = [op |-> "saveStateFailed", cellId |-> Undefined, prev |-> <<>>]
    /\ UNCHANGED <<loadPc, presetPc, savePresetPc>>

ApplyPresetBegin(presetId) ==
    /\ presetPc = "idle"
    /\ BeginCall
    /\ presetPc' = presetId
    /\ UNCHANGED <<last, loadPc, savePc, savePresetPc>>

ApplyPresetResolve(decoded) ==
    /\ presetPc # "idle"
    /\ layout' = decoded.layout
    /\ content' = decoded.content
    /\ playerStates' =
          [cellId \in DOMAIN decoded.content |->
              createDefaultPlayerState(cellId)]
    /\ activePresetId' = presetPc
    /\ isLoading' = FALSE
    /\ presetPc' = "idle"
    /\ last' = [op |-> "applyPreset", cellId |-> Undefined, prev |-> <<>>]
    /\ UNCHANGED <<muteOthersEnabled, error, loadPc, savePc, savePresetPc>>

ApplyPresetReject ==
    /\ presetPc # "idle"
    /\ FailCall(ErrInvoke)
    /\ presetPc' = "idle"
    /\ last' = [op |-> "applyPresetFailed", cellId |-> Undefined,
                prev |-> <<>>]
    /\ UNCHANGED <<loadPc, savePc, savePresetPc>>

SaveAsPresetBegin ==
    /\ savePresetPc = "idle"
    /\ BeginCall
    /\ savePresetPc' = "pending"
    /\ UNCHANGED <<last, loadPc, savePc, presetPc>>

SaveAsPresetResolve ==
    /\ savePresetPc = "pending"
    /\ EndCall
    /\ savePresetPc' = "idle"
    /\ last' = [op |-> "saveAsPreset", cellId |-> Undefined, prev |-> <<>>]
    /\ UNCHANGED <<loadPc, savePc, presetPc>>

SaveAsPresetReject ==
    /\ savePresetPc = "pending"
    /\ FailCall(ErrInvoke)
    /\ savePresetPc' = "idle"
    /\ last' = [op |-> "saveAsPresetFailed", cellId |-> Undefined,
                prev |-> <<>>]
    /\ UNCHANGED <<loadPc, savePc, presetPc>>

\* addCell(); the call is recorded with the id it hands out and with the
\* calls that are outstanding when it runs
IoAddCell ==
    /\ Cardinality(issued \ ApiIds) < MaxIoCells
    /\ AddCell(NoSize, 0)
    /\ last' = [op |-> "addCell",
                cellId |-> CHOOSE c \in generateCellId : TRUE,
                prev |-> ioVars]

IoRemoveCell(cellId) ==
    /\ RemoveCell(cellId)
    /\ last' = [op |-> "removeCell", cellId |-> cellId, prev |-> <<>>]

\* the ids of the persisted states were handed out in earlier sessions
InitIoSpec ==
    /\ InitStore
    /\ activePlayerIds = <<>>
    /\ now = 0
    /\ issued = ApiIds
    /\ InitHist
    /\ InitRecIdle
    /\ InitIo
    /\ InitAuth
    /\ InitGrid

ioRest == <<activePlayerIds, clock, activatedAt, recVars, authVars, gridVars>>

NextIo ==
    \/ IoLoadStateBegin /\ UNCHANGED <<envVars, ioRest>>
    \/ \E state \in IoStates :
          IoLoadStateResolve(state) /\ UNCHANGED <<envVars, ioRest>>
    \/ IoLoadStateResolveNull /\ UNCHANGED <<envVars, ioRest>>
    \/ IoLoadStateReject /\ UNCHANGED <<envVars, ioRest>>
    \/ SaveStateBegin /\ UNCHANGED <<envVars, ioRest>>
    \/ SaveStateResolve /\ UNCHANGED <<envVars, ioRest>>
    \/ SaveStateReject /\ UNCHANGED <<envVars, ioRest>>
    \/ \E presetId \in PresetIds :
          ApplyPresetBegin(presetId) /\ UNCHANGED <<envVars, ioRest>>
    \/ \E decoded \in IoStates :
          ApplyPresetResolve(decoded) /\ UNCHANGED <<envVars, ioRest>>
    \/ ApplyPresetReject /\ UNCHANGED <<envVars, ioRest>>
    \/ SaveAsPresetBegin /\ UNCHANGED <<envVars, ioRest>>
    \/ SaveAsPresetResolve /\ UNCHANGED <<envVars, ioRest>>
    \/ SaveAsPresetReject /\ UNCHANGED <<envVars, ioRest>>
    \/ IoAddCell /\ UNCHANGED <<now, ioVars, ioRest>>
    \/ \E cellId \in LayoutIds(layout) :
          IoRemoveCell(cellId) /\ UNCHANGED <<envVars, ioVars, ioRest>>

SpecIo == InitIoSpec /\ [][NextIo]_vars

(***************************************************************************)
(* Claims about SpecIo                                                     *)
(***************************************************************************)
StoreData ==
    <<layout, content, playerStates, muteOthersEnabled, activePresetId>>

FailedOps ==
    {"loadStateFailed", "saveStateFailed", "applyPresetFailed",
     "saveAsPresetFailed"}

\* the step in which a call starts
CallBegins ==
    \/ loadPc = "idle" /\ loadPc' # "idle"
    \/ savePc = "idle" /\ savePc' # "idle"
    \/ presetPc = "idle" /\ presetPc' # "idle"
    \/ savePresetPc = "idle" /\ savePresetPc' # "idle"

\* the step in which a call fails
CallFails ==
    \/ loadPc # "idle" /\ loadPc' = "idle" /\ last'.op = "loadStateFailed"
    \/ savePc # "idle" /\ savePc' = "idle" /\ last'.op = "saveStateFailed"
    \/ /\ presetPc # "idle" /\ presetPc' = "idle"
       /\ last'.op = "applyPresetFailed"
    \/ /\ savePresetPc # "idle" /\ savePresetPc' = "idle"
       /\ last'.op = "saveAsPresetFailed"

\* C22: a saveState, loadState, applyPreset or saveAsPreset that fails
\* leaves layout, content, playerStates, muteOthersEnabled and
\* activePresetId as they are, both when it starts and when it fails; the
\* failure sets error to the message and isLoading to false.
C22_FailedCallKeepsData ==
    [][/\ CallBegins => UNCHANGED StoreData /\ isLoading' /\ error' = null
       /\ CallFails =>
             /\ UNCHANGED StoreData
             /\ ~isLoading'
             /\ error' \in {ErrLoad, ErrInvoke}]_vars

\* a call has failed on a store that holds a cell
C22_Witness ==
    /\ last.op \in FailedOps
    /\ layout # <<>>
    /\ DOMAIN content # {}
    /\ error # null


\* C23: a cell added with addCell while loadState or applyPreset is
\* outstanding is in layout and content at once, and it is still there when
\* the call completes.
C23_MutationSurvivesCompletion ==
    /\ [][last'.op = "addCell" /\ last' # last =>
             /\ last'.cellId \in LayoutIds(layout')
             /\ Has(content', last'.cellId)]_vars
    /\ [][/\ last.op = "addCell"
          /\ \/ last.prev[1] # "idle" /\ loadPc # "idle" /\ loadPc' = "idle"
             \/ last.prev[3] # "idle" /\ presetPc # "idle" /\ presetPc' = "idle"
          => /\ last.cellId \in LayoutIds(layout')
             /\ Has(content', last.cellId)]_vars


(***************************************************************************)
(* SpecIds: addCell, removeCell, applyPresetLayout, updateCellContent and  *)
(* activatePlayer with Date.now() advancing.  Every step records the ids   *)
(* the operation created and the ids that were in the layout, the content  *)
(* map or the pool at any time before it.                                  *)
(***************************************************************************)
IdsInUse ==
    LayoutIds(layout) \cup DOMAIN content \cup SeqToSet(activePlayerIds)

\* the ids in use now or at any earlier time
EverInUse == last.before \cup last.created \cup IdsInUse

IdsAddCell ==
    /\ Cardinality(issued) < NumUuids
    /\ AddCell(NoSize, 0)
    /\ last' = [op |-> "addCell",
                created |-> LayoutIds(layout') \ LayoutIds(layout),
                before |-> EverInUse]
    /\ UNCHANGED <<activePlayerIds, now>>

IdsApplyPresetLayout(preset) ==
    /\ ApplyPresetLayout(preset)
    /\ last' = [op |-> "applyPresetLayout",
                created |-> LayoutIds(layout'),
                before |-> EverInUse]
    /\ UNCHANGED <<activePlayerIds, now, issued>>

IdsRemoveCell(cellId) ==
    /\ RemoveCell(cellId)
    /\ last' = [op |-> "removeCell", created |-> {}, before |-> EverInUse]
    /\ UNCHANGED <<activePlayerIds, now, issued>>

IdsUpdateCellContent(cellId, contentUpdate) ==
    /\ UpdateCellContent(cellId, contentUpdate)
    /\ last' = [op |-> "updateCellContent", cellId |-> cellId,
                created |-> {}, before |-> EverInUse]
    /\ UNCHANGED <<activePlayerIds, now, issued>>

IdsActivatePlayer(cellId) ==
    /\ CanActivateFromCell(cellId)
    /\ ActivatePlayer(cellId)
    /\ last' = [op |-> "activatePlayer", created |-> {},
                before |-> EverInUse]
    /\ UNCHANGED <<storeVars, now, issued>>

IdsTick ==
    /\ Tick
    /\ UNCHANGED <<storeVars, activePlayerIds, issued, last>>

InitIds ==
    /\ InitStore
    /\ activePlayerIds = <<>>
    /\ InitEnv
    /\ last = [op |-> "none", created |-> {}, before |-> {}]
    /\ clock = 0
    /\ activatedAt = [id \in PoolIds |-> 0]
    /\ InitRecIdle
    /\ InitIo
    /\ InitAuth
    /\ InitGrid

idsRest == <<clock, activatedAt, recVars, authVars, ioVars, gridVars>>

NextIds ==
    \/ IdsAddCell /\ UNCHANGED idsRest
    \/ \E preset \in BUILTIN_PRESETS :
          IdsApplyPresetLayout(preset) /\ UNCHANGED idsRest
    \/ \E cellId \in LayoutIds(layout) :
          IdsRemoveCell(cellId) /\ UNCHANGED idsRest
    \/ \E cellId \in LayoutIds(layout), upd \in ContentUpdates :
          IdsUpdateCellContent(cellId, upd) /\ UNCHANGED idsRest
    \/ \E cellId \in LayoutIds(layout) :
          IdsActivatePlayer(cellId) /\ UNCHANGED idsRest
    \/ IdsTick /\ UNCHANGED idsRest

SpecIds == InitIds /\ [][NextIds]_vars

\* C25: no operation that creates cells reuses an id: the ids that addCell
\* and applyPresetLayout hand out were never before in the layout, the
\* content map or the pool.
C25_CreatedIdsAreFresh ==
    last.op \in {"addCell", "applyPresetLayout"} =>
        last.created \cap last.before = {}

\* the step updateCellContent(cellId, {videoId}) on a cell of type empty
AssignsContent(cellId) ==
    /\ cellId \in DOMAIN content
    /\ content[cellId].type = "empty"
    /\ last'.op = "updateCellContent"
    /\ last'.cellId = cellId
    /\ content' # content

\* C28: updateCellContent(id, {videoId}) on a cell of type empty makes its
\* type video, leaves its layout item and its player state as they are, and
\* leaves id out of the active pool; id enters the pool only when
\* activatePlayer(id) is called.
C28_AssignLeavesCellInactive ==
    /\ [][\A cellId \in LayoutIds(layout) :
             AssignsContent(cellId) =>
                /\ content'[cellId].type = "video"
                /\ layout' = layout
                /\ playerStates'[cellId] = playerStates[cellId]
                /\ cellId \notin SeqToSet(activePlayerIds')]_vars
    /\ [][\A cellId \in CellIds :
             /\ cellId \notin SeqToSet(activePlayerIds)
             /\ cellId \in SeqToSet(activePlayerIds')
             => last'.op = "activatePlayer"]_vars

(***************************************************************************)
(* Claims about the error message and the consistency of the store (Spec)  *)
(***************************************************************************)
\* C24: the error that addCell sets when it is over capacity is cleared by
\* the next action that succeeds: an addCell that adds a cell leaves error
\* null.
C24_SuccessfulAddClearsError ==
    [][issued' # issued /\ Len(layout') = Len(layout) + 1
          => error' = null]_vars


(***************************************************************************)
(* SpecPresets: the built-in presets, built for a grid of cols x rows and  *)
(* applied to the store.  GRID_CONFIG fixes cols = COLS and rows = ROWS;   *)
(* the other sizes are what a change of GRID_CONFIG would give.            *)
(***************************************************************************)
Resolutions == (COLS - 2)..MaxResolution

InitPresets ==
    /\ InitStore
    /\ activePlayerIds = <<>>
    /\ InitEnv
    /\ \E cols \in Resolutions, rows \in Resolutions :
          last = [op |-> "grid", cols |-> cols, rows |-> rows]
    /\ clock = 0
    /\ activatedAt = [id \in PoolIds |-> 0]
    /\ InitRecIdle
    /\ InitIo
    /\ InitAuth
    /\ InitGrid

PresetsApplyPresetLayout(preset) ==
    /\ ApplyPresetLayout(preset)
    /\ last' = [last EXCEPT !.op = "applyPresetLayout"]

presetsRest ==
    <<activePlayerIds, envVars, clock, activatedAt, recVars, authVars, ioVars,
      gridVars>>

NextPresets ==
    \E preset \in BUILTIN_PRESETS_AT(last.cols, last.rows) :
        PresetsApplyPresetLayout(preset) /\ UNCHANGED presetsRest

SpecPresets == InitPresets /\ [][NextPresets]_vars

\* the items of l lie in a grid of cols x rows, are at least MIN_W x MIN_H
\* and do not overlap
PresetLayoutValid(l, cols, rows) ==
    /\ NonOverlapping(l)
    /\ \A k \in 1..Len(l) :
          /\ l[k].x >= 0 /\ l[k].y >= 0
          /\ l[k].w >= MIN_W /\ l[k].h >= MIN_H
          /\ l[k].x + l[k].w <= cols
          /\ l[k].y + l[k].h <= rows

KeptPlaces == {k \in 1..Len(recLayout) : HasKey(recContent, recLayout[k].i)}

\* the j-th of them, counted from the front
KeptPlace(j) ==
    CHOOSE k \in KeptPlaces : Cardinality({m \in KeptPlaces : m <= k}) = j

\* the items of recLayout that have content, in the order of recLayout
KeptItems == [j \in 1..Cardinality(KeptPlaces) |-> recLayout[KeptPlace(j)]]

\* C29: reconcileLayout(L, C) starts with the items of L whose id is in C,
\* each with all its fields as in L and in the order of L; the appended
\* items follow them, and sanitizeGhostReferences(L, C) is that front part.
C29_KeptItemsUnchangedInFront ==
    recPc # "start" =>
        LET n == Cardinality(KeptPlaces)
        IN  /\ Len(recOnce) >= n
            /\ SubSeq(recOnce, 1, n) = KeptItems
            /\ \A j \in (n + 1)..Len(recOnce) :
                  /\ recOnce[j].i \notin LayoutIds(recLayout)
                  /\ recOnce[j].y = Infinity
            /\ sanitizeGhostReferences(recLayout, recContent) = KeptItems

\* a layout of a ghost between two items with content, and a content
\* without a layout item, reconciled
C29_Witness ==
    /\ recPc = "once"
    /\ Len(recLayout) = 3
    /\ KeptPlaces = {1, 3}
    /\ Len(recOnce) = 3


(***************************************************************************)
(* SpecRemove: addCell, applyPresetLayout, updateCellContent and           *)
(* removeContent; removeContent is called with every id, in the store or   *)
(* not, and recorded with the store as it was before the call.             *)
(***************************************************************************)
\* the values removeContent is stated to remove from or to leave alone
StoreSnapshot ==
    [layout |-> layout, content |-> content, playerStates |-> playerStates,
     muteOthersEnabled |-> muteOthersEnabled,
     activePresetId |-> activePresetId, error |-> error]

RmAddCell(maxCount) ==
    /\ Cardinality(issued) < NumUuids
    /\ AddCell(NoSize, maxCount)
    /\ last' = [op |-> "addCell", cellId |-> Undefined, prev |-> <<>>]

RmApplyPresetLayout(preset) ==
    /\ ApplyPresetLayout(preset)
    /\ last' = [op |-> "applyPresetLayout", cellId |-> Undefined,
                prev |-> <<>>]
    /\ UNCHANGED issued

RmUpdateCellContent(cellId, contentUpdate) ==
    /\ UpdateCellContent(cellId, contentUpdate)
    /\ last' = [op |-> "updateCellContent", cellId |-> cellId, prev |-> <<>>]
    /\ UNCHANGED issued

RmRemoveContent(cellId) ==
    /\ RemoveContent(cellId)
    /\ last' = [op |-> "removeContent", cellId |-> cellId,
                prev |-> StoreSnapshot]
    /\ UNCHANGED issued

\* the ids removeContent is called with: those addCell and applyPresetLayout
\* hand out here
RemoveIds == ApiIds \cup PresetCellIds

rmRest ==
    <<activePlayerIds, now, clock, activatedAt, recVars, authVars, ioVars, gridVars>>

NextRemove ==
    \/ \E maxCount \in MaxCounts :
          RmAddCell(maxCount) /\ UNCHANGED rmRest
    \/ \E preset \in BUILTIN_PRESETS :
          RmApplyPresetLayout(preset) /\ UNCHANGED rmRest
    \/ \E cellId \in LayoutIds(layout), upd \in ContentUpdates :
          RmUpdateCellContent(cellId, upd) /\ UNCHANGED rmRest
    \/ \E cellId \in RemoveIds :
          RmRemoveContent(cellId) /\ UNCHANGED rmRest

SpecRemove == Init /\ [][NextRemove]_vars

\* C30: removeContent(id) takes id out of layout, content and playerStates
\* and leaves the layout items, contents and player states of the other
\* cells, muteOthersEnabled, activePresetId and error as they were; for an id
\* that is not in the store none of these values changes.
C30_RemoveContentFrame ==
    last.op = "removeContent" =>
        LET id == last.cellId
            p  == last.prev
            others == {k \in 1..Len(p.layout) : p.layout[k].i # id}
        IN  /\ id \notin LayoutIds(layout)
            /\ id \notin DOMAIN content
            /\ id \notin DOMAIN playerStates
            /\ Len(layout) = Cardinality(others)
            /\ \A k \in others : \E m \in 1..Len(layout) :
                  layout[m] = p.layout[k]
            /\ DOMAIN content = DOMAIN p.content \ {id}
            /\ \A c \in DOMAIN content : content[c] = p.content[c]
            /\ DOMAIN playerStates = DOMAIN p.playerStates \ {id}
            /\ \A c \in DOMAIN playerStates :
                  playerStates[c] = p.playerStates[c]
            /\ muteOthersEnabled = p.muteOthersEnabled
            /\ activePresetId = p.activePresetId
            /\ error = p.error
            /\ id \notin LayoutIds(p.layout) \cup DOMAIN p.content
                        \cup DOMAIN p.playerStates
                  => /\ layout = p.layout
                     /\ content = p.content
                     /\ playerStates = p.playerStates

\* one of two cells was removed while an error message was shown
C30_Witness ==
    /\ last.op = "removeContent"
    /\ Len(last.prev.layout) = 2
    /\ Len(layout) = 1
    /\ error # null


(***************************************************************************)
(* Claims about removeCell, setLayout and the mute flags                   *)
(***************************************************************************)
\* C31: removeCell(id) takes the item with that id out of the layout and
\* keeps the content entry of id.
C31_RemoveCellKeepsContent ==
    [][last'.op = "removeCell" /\ layout' # layout =>
          LET id == last'.cellId
          IN  /\ id \notin LayoutIds(layout')
              /\ id \in DOMAIN content =>
                    /\ id \in DOMAIN content'
                    /\ content'[id] = content[id]]_vars


(***************************************************************************)
(* SpecLayout: a preset is applied, cells are added and given a video, and *)
(* the grid library reports layout changes (one item moved or resized      *)
(* along x), which handleLayoutChange commits with setLayout.  Every       *)
(* commit is recorded with the layout it was called with and the rest of   *)
(* the store as it was before.                                             *)
(***************************************************************************)
\* a call that is rejected for its maxCount hands out no id
LayAddCell(maxCount) ==
    /\ \/ Cardinality(issued) < MaxLayCells
       \/ maxCount # 0 /\ Len(layout) >= maxCount
    /\ AddCell(NoSize, maxCount)
    /\ last' = [op |-> "addCell"]

LayApplyPresetLayout(preset) ==
    /\ ApplyPresetLayout(preset)
    /\ last' = [op |-> "applyPresetLayout", presetId |-> preset.id]
    /\ UNCHANGED issued

LayUpdateCellContent(cellId, contentUpdate) ==
    /\ UpdateCellContent(cellId, contentUpdate)
    /\ last' = [op |-> "updateCellContent"]
    /\ UNCHANGED issued

LayLayoutChange(newLayout) ==
    /\ GridShown
    /\ HandleLayoutChange(newLayout)
    /\ last' = [op |-> "setLayout",
                arg |-> [k \in 1..Len(newLayout) |-> ConvertItem(newLayout[k])],
                prev |-> [content |-> content, playerStates |-> playerStates,
                          muteOthersEnabled |-> muteOthersEnabled,
                          error |-> error]]
    /\ UNCHANGED issued

layRest ==
    <<activePlayerIds, now, clock, activatedAt, recVars, authVars, ioVars, gridVars>>

NextLayout ==
    \/ \E maxCount \in MaxCounts :
          LayAddCell(maxCount) /\ UNCHANGED layRest
    \/ \E preset \in BUILTIN_PRESETS :
          LayApplyPresetLayout(preset) /\ UNCHANGED layRest
    \/ \E cellId \in LayoutIds(layout), upd \in ContentUpdates :
          LayUpdateCellContent(cellId, upd) /\ UNCHANGED layRest
    \/ \E k \in 1..Len(layout), x \in ReportedXs, w \in ReportedWs :
          LayLayoutChange(ReportedLayout(k, x, layout[k].y, w, layout[k].h))
             /\ UNCHANGED layRest

SpecLayout == Init /\ [][NextLayout]_vars

\* C32: setLayout(l) makes l the layout and clears activePresetId, and
\* leaves content, playerStates, muteOthersEnabled and error as they were;
\* after applyPresetLayout(p) activePresetId is p.id, and it stays so until
\* a layout change is committed.
C32_SetLayoutFrame ==
    /\ [](last.op = "setLayout" =>
            /\ layout = last.arg
            /\ activePresetId = Undefined
            /\ content = last.prev.content
            /\ playerStates = last.prev.playerStates
            /\ muteOthersEnabled = last.prev.muteOthersEnabled
            /\ error = last.prev.error)
    /\ [](last.op = "applyPresetLayout" => activePresetId = last.presetId)
    /\ [][last'.op \in {"addCell", "updateCellContent"}
             => UNCHANGED activePresetId]_vars

\* a layout change was committed after a preset was applied, with a video
\* assigned and an error message shown
C32_Witness ==
    /\ last.op = "setLayout"
    /\ \E k \in 1..Len(layout) : layout[k].i \in PresetCellIds
    /\ \E id \in DOMAIN content : content[id].type = "video"
    /\ error # null


(***************************************************************************)
(* Player state actions of the store                                       *)
(***************************************************************************)
\* a plausible slip: setPlayerState never mutes the other cells
SetPlayerStatePlain(cellId, stateUpdate) ==
    LET existingState ==
            IF cellId \in DOMAIN playerStates THEN playerStates[cellId]
            ELSE createDefaultPlayerState(cellId)
    IN  /\ playerStates' =
              Put(playerStates, cellId, Spread(existingState, stateUpdate))
        /\ UNCHANGED <<layout, content, muteOthersEnabled, activePresetId,
                       isLoading, error>>

SetPlayerState(cellId, stateUpdate) ==
    IF muteOthersEnabled /\ Has(stateUpdate, "muted") /\ ~stateUpdate.muted
    THEN LET newStates ==
                 [id \in DOMAIN playerStates |->
                     Spread(playerStates[id], [muted |-> id # cellId])]
             \* { ...newStates[cellId], ...stateUpdate }: the spread of
             \* undefined adds no field
             own == IF cellId \in DOMAIN newStates THEN newStates[cellId]
                    ELSE EmptyMap
         IN  /\ playerStates' = Put(newStates, cellId, Spread(own, stateUpdate))
             /\ UNCHANGED <<layout, content, muteOthersEnabled,
                            activePresetId, isLoading, error>>
    ELSE LET existingState ==
                 IF cellId \in DOMAIN playerStates THEN playerStates[cellId]
                 ELSE createDefaultPlayerState(cellId)
         IN  /\ playerStates' =
                   Put(playerStates, cellId, Spread(existingState, stateUpdate))
             /\ UNCHANGED <<layout, content, muteOthersEnabled,
                            activePresetId, isLoading, error>>

\* a plausible slip: muteOthers mutes every cell
MuteOthersAll(activeCellId) ==
    /\ playerStates' =
          [id \in DOMAIN playerStates |->
              Spread(playerStates[id], [muted |-> TRUE])]
    /\ UNCHANGED <<layout, content, muteOthersEnabled, activePresetId,
                   isLoading, error>>

MuteOthers(activeCellId) ==
    /\ playerStates' =
          [id \in DOMAIN playerStates |->
              Spread(playerStates[id], [muted |-> id # activeCellId])]
    /\ UNCHANGED <<layout, content, muteOthersEnabled, activePresetId,
                   isLoading, error>>

ToggleMuteOthersMode ==
    /\ muteOthersEnabled' = ~muteOthersEnabled
    /\ UNCHANGED <<layout, content, playerStates, activePresetId, isLoading,
                   error>>

(***************************************************************************)
(* SpecMute: setPlayerState on the cells of the layout (VideoCell passes    *)
(* its own cellId), muteOthers on every id, in the store or not, and       *)
(* toggleMuteOthersMode, with addCell, removeCell, updateCellContent and   *)
(* applyPresetLayout.                                                      *)
(* Every step records whether muteOthersEnabled has been true throughout.  *)
(***************************************************************************)
\* the updates VideoCell sends, and an unmute
StateUpdates ==
    {[muted |-> FALSE],
     [muted |-> TRUE, playing |-> TRUE],
     [playing |-> FALSE]}

\* the ids muteOthers is called with: those of the cells and one more,
\* which no cell has
MuteIds ==
    {<<"uuid", n, 0>> : n \in 1..(MaxMuteCells + 1)}
        \cup {PresetCellId(0, k) : k \in 0..(MaxPresetLen - 1)}

\* the record of a step: "muteOthers" with its argument, or "other"
MuteStep(op, cellId) ==
    [op |-> op, cellId |-> cellId,
     stayed |-> last.stayed /\ muteOthersEnabled']

MuteAddCell ==
    /\ Cardinality(issued) < MaxMuteCells
    /\ AddCell(NoSize, 0)
    /\ last' = MuteStep("other", Undefined)

MuteRemoveCell(cellId) ==
    /\ RemoveCell(cellId)
    /\ last' = MuteStep("other", Undefined)
    /\ UNCHANGED issued

MuteUpdateCellContent(cellId, contentUpdate) ==
    /\ UpdateCellContent(cellId, contentUpdate)
    /\ last' = MuteStep("other", Undefined)
    /\ UNCHANGED issued

MuteApplyPresetLayout(preset) ==
    /\ ApplyPresetLayout(preset)
    /\ last' = MuteStep("other", Undefined)
    /\ UNCHANGED issued

MuteSetPlayerState(cellId, stateUpdate) ==
    /\ SetPlayerState(cellId, stateUpdate)
    /\ last' = MuteStep("other", Undefined)
    /\ UNCHANGED issued

MuteMuteOthers(activeCellId) ==
    /\ MuteOthers(activeCellId)
    /\ last' = MuteStep("muteOthers", activeCellId)
    /\ UNCHANGED issued

MuteToggleMuteOthersMode ==
    /\ ToggleMuteOthersMode
    /\ last' = MuteStep("other", Undefined)
    /\ UNCHANGED issued

InitMute ==
    /\ InitStore
    /\ activePlayerIds = <<>>
    /\ InitEnv
    /\ last = [op |-> "none", cellId |-> Undefined, stayed |-> TRUE]
    /\ clock = 0
    /\ activatedAt = [id \in PoolIds |-> 0]
    /\ InitRecIdle
    /\ InitIo
    /\ InitAuth
    /\ InitGrid

muteRest ==
    <<activePlayerIds, now, clock, activatedAt, recVars, authVars, ioVars, gridVars>>

NextMute ==
    \/ MuteAddCell /\ UNCHANGED muteRest
    \/ \E cellId \in LayoutIds(layout) :
          MuteRemoveCell(cellId) /\ UNCHANGED muteRest
    \/ \E cellId \in LayoutIds(layout), upd \in ContentUpdates :
          MuteUpdateCellContent(cellId, upd) /\ UNCHANGED muteRest
    \/ \E preset \in BUILTIN_PRESETS :
          MuteApplyPresetLayout(preset) /\ UNCHANGED muteRest
    \/ \E cellId \in LayoutIds(layout), upd \in StateUpdates :
          MuteSetPlayerState(cellId, upd) /\ UNCHANGED muteRest
    \/ \E cellId \in MuteIds :
          MuteMuteOthers(cellId) /\ UNCHANGED muteRest
    \/ MuteToggleMuteOthersMode /\ UNCHANGED muteRest

SpecMute == InitMute /\ [][NextMute]_vars

\* the cells whose player state says muted = false
Unmuted ==
    {id \in DOMAIN playerStates :
        Has(playerStates[id], "muted") /\ ~playerStates[id].muted}

\* C33: as long as muteOthersEnabled has been true since the initial state,
\* at most one cell's player state has muted = false.
C33_AtMostOneUnmuted ==
    last.stayed => Cardinality(Unmuted) <= 1

\* one of the player states is unmuted after another cell was unmuted
\* before it
C33_Witness ==
    /\ last.stayed
    /\ last.op = "other"
    /\ Cardinality(DOMAIN playerStates) >= 2
    /\ Cardinality(Unmuted) = 1
    /\ \E id \in DOMAIN playerStates \ Unmuted :
          Has(playerStates[id], "playing") /\ playerStates[id].playing


\* C34: muteOthers(id) sets muted = true on every cell other than id, leaves
\* the player state of id as it is, its muted flag included, and creates no
\* player state.
C34_MuteOthersLeavesActiveCell ==
    [][last'.op = "muteOthers" /\ playerStates' # playerStates =>
          LET id == last'.cellId
          IN  /\ DOMAIN playerStates' = DOMAIN playerStates
              /\ \A other \in DOMAIN playerStates \ {id} :
                    playerStates'[other].muted
              /\ id \in DOMAIN playerStates =>
                    playerStates'[id] = playerStates[id]]_vars


(***************************************************************************)
(* Claims about the persistence calls (SpecIo), continued                  *)
(***************************************************************************)
\* a saveState, loadState, applyPreset or saveAsPreset has not settled
CallOutstanding ==
    \/ loadPc # "idle"
    \/ savePc # "idle"
    \/ presetPc # "idle"
    \/ savePresetPc # "idle"

\* C35: isLoading is true in every state in which at least one of the four
\* persistence calls is outstanding, also when two overlap and one of them
\* completes first.
C35_LoadingWhileOutstanding ==
    CallOutstanding => isLoading


(***************************************************************************)
(* SpecPage: MultiviewPage.  The page calls loadState when it is entered.  *)
(* It renders MultiviewSkeleton while isLoading, and otherwise             *)
(* PlayerPoolProvider with the toolbar and the grid inside; the pool is    *)
(* the state of usePlayerPool in the provider, so it exists only while the *)
(* provider is mounted and starts empty when the provider mounts.  The     *)
(* toolbar and the cells take events only while they are rendered.         *)
(***************************************************************************)
\* the render that follows a change of the store: pool is what the hook
\* holds after the event
PageRender(pool) ==
    activePlayerIds' = IF isLoading' THEN <<>> ELSE pool

PageLoadStateBegin ==
    /\ last.op = "none"
    /\ IoLoadStateBegin
    /\ PageRender(activePlayerIds)

PageLoadStateResolve(state) ==
    IoLoadStateResolve(state) /\ PageRender(activePlayerIds)

PageLoadStateResolveNull ==
    IoLoadStateResolveNull /\ PageRender(activePlayerIds)

PageLoadStateReject ==
    IoLoadStateReject /\ PageRender(activePlayerIds)

\* the save button of the toolbar
PageSaveAsPresetBegin ==
    /\ ~isLoading
    /\ SaveAsPresetBegin
    /\ PageRender(activePlayerIds)

PageSaveAsPresetResolve ==
    SaveAsPresetResolve /\ PageRender(activePlayerIds)

PageSaveAsPresetReject ==
    SaveAsPresetReject /\ PageRender(activePlayerIds)

\* the add button of the toolbar
PageAddCell ==
    /\ ~isLoading
    /\ IoAddCell
    /\ PageRender(activePlayerIds)

\* a video is picked in an empty cell
PageUpdateCellContent(cellId, contentUpdate) ==
    /\ ~isLoading
    /\ UpdateCellContent(cellId, contentUpdate)
    /\ last' = [op |-> "updateCellContent", cellId |-> cellId, prev |-> <<>>]
    /\ PageRender(activePlayerIds)

\* the thumbnail of a video cell is clicked
PageActivatePlayer(cellId) ==
    /\ ~isLoading
    /\ CanActivateFromCell(cellId)
    /\ last' = [op |-> "activatePlayer", cellId |-> cellId, prev |-> <<>>]
    /\ UNCHANGED storeVars
    /\ PageRender(activatePlayer(activePlayerIds, cellId))

pageRest == <<clock, activatedAt, recVars, authVars, gridVars>>

NextPage ==
    \/ PageLoadStateBegin /\ UNCHANGED <<envVars, pageRest>>
    \/ \E state \in IoStates :
          PageLoadStateResolve(state) /\ UNCHANGED <<envVars, pageRest>>
    \/ PageLoadStateResolveNull /\ UNCHANGED <<envVars, pageRest>>
    \/ PageLoadStateReject /\ UNCHANGED <<envVars, pageRest>>
    \/ PageSaveAsPresetBegin /\ UNCHANGED <<envVars, pageRest>>
    \/ PageSaveAsPresetResolve /\ UNCHANGED <<envVars, pageRest>>
    \/ PageSaveAsPresetReject /\ UNCHANGED <<envVars, pageRest>>
    \/ PageAddCell /\ UNCHANGED <<now, ioVars, pageRest>>
    \/ \E cellId \in LayoutIds(layout), upd \in ContentUpdates :
          PageUpdateCellContent(cellId, upd)
             /\ UNCHANGED <<envVars, ioVars, pageRest>>
    \/ \E cellId \in LayoutIds(layout) :
          PageActivatePlayer(cellId) /\ UNCHANGED <<envVars, ioVars, pageRest>>

SpecPage == InitIoSpec /\ [][NextPage]_vars

\* the step in which a call settles
CallSettles ==
    \/ loadPc # "idle" /\ loadPc' = "idle"
    \/ savePc # "idle" /\ savePc' = "idle"
    \/ presetPc # "idle" /\ presetPc' = "idle"
    \/ savePresetPc # "idle" /\ savePresetPc' = "idle"

\* C36: starting a persistence call and completing it leave the active pool
\* as it is: the same ids in the same order.
C36_CallsKeepPool ==
    [][CallBegins \/ CallSettles => UNCHANGED activePlayerIds]_vars


(***************************************************************************)
(* The two clamps of MultiviewGrid compared                                *)
(***************************************************************************)
Geometry(item) == <<item.x, item.y, item.w, item.h>>

\* C37: the clamp of the layout-change handler and the clamp of the layout
\* prop agree: every item the handler has stored is handed to the grid
\* library with the x, y, w and h it was stored with.
C37_CommittedItemIsRenderFixedPoint ==
    last.op = "layoutChange" =>
        \A k \in 1..Len(layout) :
            Geometry(RenderItem(layout[k])) = Geometry(layout[k])


(***************************************************************************)
(* SpecAuth: useSessionAuthStore.  A user and a session are objects, here  *)
(* tuples; a session carries its expiry time.  Every backend call is an    *)
(* invoke that settles in a later step.  register and requestPasswordReset *)
(* touch only isLoading, error and errorCode and are left out.             *)
(***************************************************************************)
SKIP_VALIDATION_THRESHOLD_MS == 5 * 60 * 1000

\* expiry times: passed, within the threshold, beyond it at every time
ExpiresAts ==
    {0, SKIP_VALIDATION_THRESHOLD_MS, SKIP_VALIDATION_THRESHOLD_MS + MaxTime + 1}

Users == {<<"user", "u1">>}
Sessions == {<<"session", expiresAt>> : expiresAt \in ExpiresAts}
ExpiresAt(session) == session[2]

\* what session_login, session_restore and session_refresh resolve with
AuthResults == [user : Users, session : Sessions]

ErrAuth == "auth failed"

\* set(partial) of the store
AuthSet(partial) == authState' = Spread(authState, partial)

LoginBegin ==
    /\ authPc.login = "idle"
    /\ AuthSet([isLoading |-> TRUE, error |-> null])
    /\ authPc' = [authPc EXCEPT !.login = "pending"]
    /\ UNCHANGED <<restorePromise, refreshPromise>>

LoginResolve(result) ==
    /\ authPc.login = "pending"
    /\ AuthSet([isAuthenticated |-> TRUE, user |-> result.user,
                session |-> result.session, isLoading |-> FALSE])
    /\ authPc' = [authPc EXCEPT !.login = "idle"]
    /\ UNCHANGED <<restorePromise, refreshPromise>>

LoginReject ==
    /\ authPc.login = "pending"
    /\ AuthSet([error |-> ErrAuth, isLoading |-> FALSE])
    /\ authPc' = [authPc EXCEPT !.login = "idle"]
    /\ UNCHANGED <<restorePromise, refreshPromise>>

LogoutBegin ==
    /\ authPc.logout = "idle"
    /\ AuthSet([isLoading |-> TRUE])
    /\ authPc' = [authPc EXCEPT !.logout = "pending"]
    /\ UNCHANGED <<restorePromise, refreshPromise>>

\* session_logout settles, either way: the finally block
LogoutSettle ==
    /\ authPc.logout = "pending"
    /\ AuthSet([isAuthenticated |-> FALSE, isLoading |-> FALSE,
                user |-> nullRef, session |-> nullRef, error |-> null])
    /\ authPc' = [authPc EXCEPT !.logout = "idle"]
    /\ UNCHANGED <<restorePromise, refreshPromise>>

\* restoreSession reaches its invoke: the store is authenticated with a
\* session that is not more than the threshold away from its expiry
NeedsValidation ==
    /\ authState.isAuthenticated
    /\ authState.session # nullRef
    /\ ~(ExpiresAt(authState.session) - now > SKIP_VALIDATION_THRESHOLD_MS)

\* a plausible slip: the outstanding promise is not looked at
RestoreSessionCallAlways ==
    /\ authPc.restoreWaiters < MaxCallers
    /\ restorePromise' = "pending"
    /\ authPc' = [authPc EXCEPT
                     !.restoreWaiters = @ + 1,
                     !.restoreRequests = @ + IF NeedsValidation THEN 1 ELSE 0]
    /\ UNCHANGED <<authState, refreshPromise>>

\* restoreSession() up to its first await
RestoreSessionCall ==
    /\ authPc.restoreWaiters < MaxCallers
    /\ IF restorePromise # null
       THEN /\ authPc' = [authPc EXCEPT !.restoreWaiters = @ + 1]
            /\ UNCHANGED restorePromise
       ELSE /\ restorePromise' = "pending"
            /\ authPc' =
                 [authPc EXCEPT
                     !.restoreWaiters = @ + 1,
                     !.restoreRequests = @ + IF NeedsValidation THEN 1 ELSE 0]
    /\ UNCHANGED <<authState, refreshPromise>>

\* the promise of restoreSession settles: finally clears restorePromise and
\* every caller that holds the promise resumes; restoreSettled records that
\* a call with a backend request has settled
RestoreFinally ==
    /\ restorePromise' = null
    /\ authPc' = [authPc EXCEPT
                     !.restoreRequests = IF @ > 0 THEN @ - 1 ELSE 0,
                     !.restoreWaiters = 0,
                     !.restoreSettled = @ \/ authPc.restoreRequests > 0]
    /\ UNCHANGED refreshPromise

\* restoreSession returned before its invoke
RestoreReturn ==
    /\ restorePromise # null
    /\ authPc.restoreRequests = 0
    /\ RestoreFinally
    /\ UNCHANGED authState

RestoreResolve(result) ==
    /\ authPc.restoreRequests > 0
    /\ AuthSet([user |-> result.user, session |-> result.session])
    /\ RestoreFinally

\* session_restore resolves with null
RestoreResolveNull ==
    /\ authPc.restoreRequests > 0
    /\ AuthSet([isAuthenticated |-> FALSE, user |-> nullRef,
                session |-> nullRef])
    /\ RestoreFinally

RestoreReject ==
    /\ authPc.restoreRequests > 0
    /\ RestoreFinally
    /\ UNCHANGED authState

\* refreshSession() up to its await
RefreshSessionCall ==
    /\ authPc.refreshWaiters < MaxCallers
    /\ IF refreshPromise # null
       THEN /\ authPc' = [authPc EXCEPT !.refreshWaiters = @ + 1]
            /\ UNCHANGED refreshPromise
       ELSE /\ refreshPromise' = "pending"
            /\ authPc' = [authPc EXCEPT !.refreshWaiters = @ + 1,
                                        !.refreshRequests = @ + 1]
    /\ UNCHANGED <<authState, restorePromise>>

RefreshFinally ==
    /\ refreshPromise' = null
    /\ authPc' = [authPc EXCEPT
                     !.refreshRequests = @ - 1,
                     !.refreshWaiters = 0,
                     !.refreshSettled = TRUE]
    /\ UNCHANGED restorePromise

RefreshResolve(result) ==
    /\ authPc.refreshRequests > 0
    /\ AuthSet([user |-> result.user, session |-> result.session])
    /\ RefreshFinally

RefreshReject ==
    /\ authPc.refreshRequests > 0
    /\ AuthSet([isAuthenticated |-> FALSE, user |-> nullRef,
                session |-> nullRef])
    /\ RefreshFinally

\* the auth:session-expired event; the listener is registered while
\* isAuthenticated
SessionExpired ==
    /\ authState.isAuthenticated
    /\ AuthSet([isAuthenticated |-> FALSE, user |-> nullRef,
                error |-> null, isLoading |-> FALSE])
    /\ UNCHANGED <<restorePromise, refreshPromise, authPc>>

AuthClearError ==
    /\ authState.error # null
    /\ AuthSet([error |-> null])
    /\ UNCHANGED <<restorePromise, refreshPromise, authPc>>

AuthTick == Tick /\ UNCHANGED <<issued, authVars>>

authRest ==
    <<storeVars, activePlayerIds, histVars, recVars, ioVars, gridVars>>

NextAuth ==
    \/ LoginBegin /\ UNCHANGED <<envVars, authRest>>
    \/ \E result \in AuthResults :
          LoginResolve(result) /\ UNCHANGED <<envVars, authRest>>
    \/ LoginReject /\ UNCHANGED <<envVars, authRest>>
    \/ LogoutBegin /\ UNCHANGED <<envVars, authRest>>
    \/ LogoutSettle /\ UNCHANGED <<envVars, authRest>>
    \/ RestoreSessionCall /\ UNCHANGED <<envVars, authRest>>
    \/ RestoreReturn /\ UNCHANGED <<envVars, authRest>>
    \/ \E result \in AuthResults :
          RestoreResolve(result) /\ UNCHANGED <<envVars, authRest>>
    \/ RestoreResolveNull /\ UNCHANGED <<envVars, authRest>>
    \/ RestoreReject /\ UNCHANGED <<envVars, authRest>>
    \/ RefreshSessionCall /\ UNCHANGED <<envVars, authRest>>
    \/ \E result \in AuthResults :
          RefreshResolve(result) /\ UNCHANGED <<envVars, authRest>>
    \/ RefreshReject /\ UNCHANGED <<envVars, authRest>>
    \/ SessionExpired /\ UNCHANGED <<envVars, authRest>>
    \/ AuthClearError /\ UNCHANGED <<envVars, authRest>>
    \/ AuthTick /\ UNCHANGED authRest

SpecAuth == Init /\ [][NextAuth]_vars


(***************************************************************************)
(* Properties of useSessionAuthStore                                       *)
(***************************************************************************)
\* the step is a call of restoreSession, of refreshSession
RestoreCallStep == authPc'.restoreWaiters = authPc.restoreWaiters + 1
RefreshCallStep == authPc'.refreshWaiters = authPc.refreshWaiters + 1

\* never two backend requests of one operation at a time, and callers wait
\* exactly while the promise is outstanding
OneFlight ==
    /\ authPc.restoreRequests <= 1
    /\ authPc.refreshRequests <= 1
    /\ authPc.restoreWaiters > 0 <=> restorePromise # null
    /\ authPc.refreshWaiters > 0 <=> refreshPromise # null
    /\ authPc.restoreRequests > 0 => restorePromise # null
    /\ authPc.refreshRequests > 0 => refreshPromise # null

\* C38 as stated: once a call of restoreSession or of refreshSession with
\* its backend request has settled, the next call of that operation starts
\* a new backend request.
C38_NextCallStartsRequest ==
    [][/\ RestoreCallStep /\ authPc.restoreSettled /\ restorePromise = null
            => authPc'.restoreRequests = 1
       /\ RefreshCallStep /\ authPc.refreshSettled /\ refreshPromise = null
            => authPc'.refreshRequests = 1]_vars

\* C38: restoreSession and refreshSession are single-flight: a call made
\* while a call of the same operation is outstanding starts no backend
\* request and joins the outstanding promise, all callers resume when that
\* promise settles, and the next call after that runs the operation anew:
\* refreshSession starts a new request, restoreSession starts one exactly
\* when the store is authenticated with a session within the threshold of
\* its expiry.
C38_SingleFlight ==
    /\ []OneFlight
    /\ [][/\ RestoreCallStep /\ restorePromise # null
               => /\ authPc'.restoreRequests = authPc.restoreRequests
                  /\ restorePromise' = restorePromise
          /\ RestoreCallStep /\ restorePromise = null
               => /\ restorePromise' # null
                  /\ authPc'.restoreRequests = 1 <=> NeedsValidation
          /\ restorePromise # null /\ restorePromise' = null
               => authPc'.restoreWaiters = 0
          /\ RefreshCallStep /\ refreshPromise # null
               => /\ authPc'.refreshRequests = authPc.refreshRequests
                  /\ refreshPromise' = refreshPromise
          /\ RefreshCallStep /\ refreshPromise = null
               => /\ refreshPromise' # null
                  /\ authPc'.refreshRequests = 1
          /\ refreshPromise # null /\ refreshPromise' = null
               => authPc'.refreshWaiters = 0]_vars

\* C38 witness: after an earlier call of each operation has settled, two
\* calls of each wait on one backend request.
C38_Witness ==
    /\ authPc.restoreSettled /\ authPc.refreshSettled
    /\ authPc.restoreWaiters = 2 /\ authPc.restoreRequests = 1
    /\ authPc.refreshWaiters = 2 /\ authPc.refreshRequests = 1

\* C39: in every state of the session auth store isAuthenticated = false
\* implies user = null and session = null, and isAuthenticated = true
\* implies that both are non-null.
C39_AuthFieldsAgree ==
    /\ ~authState.isAuthenticated =>
          authState.user = nullRef /\ authState.session = nullRef
    /\ authState.isAuthenticated =>
          authState.user # nullRef /\ authState.session # nullRef

=============================================================================
